---- MODULE Spec2Model ----
(***************************************************************************)
(* Pete OS core: the window registry and z-order engine                    *)
(* (create-window-manager), the application registry, the application      *)
(* lifecycle engine, the window-application bridge and the input event     *)
(* router (shortcut registry, interaction registry, gesture recognizers).  *)
(*                                                                         *)
(* One action is one macrotask of the JavaScript event loop: a public API  *)
(* call with everything it does synchronously (helpers, emitted events and *)
(* the subscribers they run), a zero-delay timer callback, or the          *)
(* continuation of an async function after one of its awaits.              *)
(***************************************************************************)
EXTENDS Integers, Sequences, FiniteSets, Bags, TLC

(* ---------------------------- bounds ----------------------------------- *)
WindowIds == {"w1", "w2", "w3"}
MaxTimers == 2      \* window registry: deferred focus steps pending
MaxZIndex == 4      \* window registry: createWindow stops at this nextZIndex
MaxInstances == 2   \* lifecycle engine: instances ever launched
MaxTasks == 1       \* lifecycle engine, bridge: async calls in flight
MaxOwners == 1      \* bridge: instances ever launched
MaxPending == 2     \* one application: async calls in flight
MaxKeyEvents == 1   \* shortcut registry: key events processed
MaxContextEvents == 1 \* context filters: events processed
MaxRouteEvents == 1 \* interaction handlers: events processed
MaxChains == 1      \* interaction handlers: handleEvent calls in flight
MaxHistoryEvents == 102 \* a long run: events, more than the history keeps
MaxGestureEvents == 4 \* gestures: pointer events processed
MaxSwipeEvents == 4 \* swipes: pointer events processed
MaxMessageInstances == 3 \* messages: instances ever launched

NoWindow == "none"
NoInstance == 0

VARIABLES
  windows,          \* state.windows: live window id -> WindowState
  windowOrder,      \* state.windowOrder: back-to-front sequence of ids
  focusedWindowId,  \* state.focusedWindowId (NoWindow models null)
  nextZIndex,       \* state.nextZIndex
  timers,           \* pending setTimeout(..., 0) callbacks, oldest first
  wmEvents,         \* window events emitted by the last step, in order
  refocusOwed,      \* history: the focused window was destroyed and only
                    \* create/destroy/minimize/deferred steps ran since
  windowConstraints,\* windowConstraints: window id -> WindowConstraints
  wmThrown,         \* the error the last step's window-registry call threw
  lastLoad,         \* the kind of blob the last step gave loadSerializedState
  lastTimer         \* the window whose deferred focus the last step ran

wmVars == <<windows, windowOrder, focusedWindowId, nextZIndex, timers,
            wmEvents, refocusOwed, windowConstraints, wmThrown, lastLoad,
            lastTimer>>

VARIABLES
  applications,     \* application registry: the registered application ids
  instances,        \* lifecycle engine: live instance id -> ApplicationInstance
  nextInstance,     \* the next fresh instance identity
  windowToInstance, \* bridge: window id -> owning instance id
  bridgeInstance,   \* bridge module: the cached bridge, or Undefined for null
  eventHandlers,    \* window registry: the subscribed handlers
  providerMounted,  \* whether ApplicationManagerProvider is mounted
  tasks,            \* async calls suspended at an await (a bag)
  appEvents,        \* application events emitted by the last step, in order
  hookCalls,        \* component hooks invoked by the last step, in order
  unmountCalls,     \* history: instance id -> number of onUnmount calls
  terminateEvents,  \* history: instance id -> number of terminate events
  terminateCalled,  \* history: instances terminate() was called on directly
  launchReturn,     \* history: app id -> instance returned by the last
                    \* launch since the last terminate activity for the app
  launchCalls,      \* history: app id -> launches that returned an instance
                    \* since then (0, 1, or 2 for more than one)
  errorLog,         \* console.error calls of the last step: the hook
                    \* failures the engine caught, in order
  appThrown,        \* the error the last step's registry, lifecycle or
                    \* bridge call threw
  messageHandlers,  \* messageHandlers: the Map's entries in insertion order
  lastSend          \* the message the last step sent and the handlers it
                    \* invoked, in order

appVars == <<applications, instances, nextInstance, windowToInstance, tasks,
             appEvents, hookCalls, unmountCalls, terminateEvents,
             terminateCalled, launchReturn, launchCalls, errorLog,
             appThrown, messageHandlers, lastSend, bridgeInstance,
             eventHandlers, providerMounted>>

VARIABLES
  shortcuts,        \* shortcut registry: the Map's values in insertion order
  handlers,         \* interaction registry: the Map's values in insertion order
  gestureDefinitions, \* custom gestures: the Map's values in insertion order
  inputEnabled,     \* state.enabled
  recentEvents,     \* state.recentEvents
  eventHistory,     \* state.eventHistory
  nextEvent,        \* history: events processEvent accepted so far, plus one
  tapStart,         \* tap recognizer: startEvent (an optional event)
  dragStart,        \* drag recognizer: startEvent
  isDragging,       \* drag recognizer: isDragging
  swipeStart,       \* swipe recognizer: startEvent
  longPress,        \* long-press recognizer: startEvent, triggered, timer
  chains,           \* handleEvent calls suspended at their await, oldest first
  invoked,          \* consumers the last step invoked, in order
  recognized,       \* gestures the last step recognized, in order
  inputErrors,      \* console.error calls of the last step, in order
  returned,         \* the processEvent calls that returned in the last step
  gestureLog        \* history: every gesture.recognized event emitted, in order

inVars == <<shortcuts, handlers, gestureDefinitions, inputEnabled,
            recentEvents, eventHistory, nextEvent, tapStart, dragStart,
            isDragging, swipeStart, longPress, chains, invoked, recognized,
            inputErrors, returned, gestureLog>>

vars == <<wmVars, appVars, inVars>>

(* ------------------------ sequence helpers ----------------------------- *)
Range(s) == {s[i] : i \in 1..Len(s)}

Filter(s, x) == SelectSeq(s, LAMBDA y : y # x)

Last(s) == s[Len(s)]

PosOf(s, x) == CHOOSE i \in 1..Len(s) : s[i] = x

\* s without its i-th element
Without(s, i) == [j \in 1..(Len(s) - 1) |-> IF j < i THEN s[j] ELSE s[j + 1]]

(* ------------------- window registry: private helpers ------------------ *)
WinEvent(t, id) == [type |-> t, windowId |-> id]

\* an event that carries a value: move (position), resize (size)
WinEventWith(t, id, v) == [type |-> t, windowId |-> id, value |-> v]

NoError == "none"

\* an optional value is the empty sequence (undefined) or <<v>>
Undefined == << >>

Some(v) == <<v>>

\* the mutable registry as one value, so that helpers compose the way the
\* source's calls nest
WM == [windows |-> windows, windowOrder |-> windowOrder,
       focusedWindowId |-> focusedWindowId, nextZIndex |-> nextZIndex,
       timers |-> timers, events |-> <<>>,
       windowConstraints |-> windowConstraints,
       thrown |-> NoError, loaded |-> "none", fired |-> NoWindow]

emit(st, ev) == [st EXCEPT !.events = Append(@, ev)]

updateZIndices(st) ==
  [st EXCEPT
     !.windows = [id \in DOMAIN st.windows |->
                    IF id \in Range(st.windowOrder)
                    THEN [st.windows[id] EXCEPT
                            !.zIndex = PosOf(st.windowOrder, id)]
                    ELSE st.windows[id]],
     !.nextZIndex = Len(st.windowOrder) + 1]

\* bringToFront without the filter: the id is pushed a second time
bringToFront_NoFilter(st, id) ==
  IF id \notin DOMAIN st.windows THEN st
  ELSE updateZIndices([st EXCEPT !.windowOrder = Append(@, id)])

bringToFront(st, id) ==
  IF id \notin DOMAIN st.windows THEN st
  ELSE updateZIndices([st EXCEPT !.windowOrder = Append(Filter(@, id), id)])

Eligible(st, id) ==
  /\ id \in DOMAIN st.windows
  /\ ~st.windows[id].isMinimized
  /\ st.windows[id].isVisible

\* the id of the window getTopmostWindow returns, NoWindow for undefined
getTopmostWindow(st) ==
  LET cand == {i \in 1..Len(st.windowOrder) : Eligible(st, st.windowOrder[i])}
  IN IF cand = {} THEN NoWindow
     ELSE st.windowOrder[CHOOSE i \in cand : \A j \in cand : j <= i]

(* ------------------- window registry: public API ----------------------- *)
\* focusWindow that forgets to clear the previous window's focused flag
focusWindow_NoBlur(st, id) ==
  IF id \notin DOMAIN st.windows THEN st
  ELSE IF st.windows[id].isMinimized THEN st
  ELSE
    LET s2 == bringToFront(st, id)
    IN emit([s2 EXCEPT !.windows[id].isFocused = TRUE,
                       !.focusedWindowId = id],
            WinEvent("focus", id))

\* focusWindow that sets the focus without raising the window
focusWindow_NoRaise(st, id) ==
  IF id \notin DOMAIN st.windows THEN st
  ELSE IF st.windows[id].isMinimized THEN st
  ELSE
    LET prev == st.focusedWindowId
        s1 == IF prev # NoWindow /\ prev # id /\ prev \in DOMAIN st.windows
              THEN emit([st EXCEPT !.windows[prev].isFocused = FALSE],
                        WinEvent("blur", prev))
              ELSE st
    IN emit([s1 EXCEPT !.windows[id].isFocused = TRUE,
                       !.focusedWindowId = id],
            WinEvent("focus", id))

focusWindow(st, id) ==
  IF id \notin DOMAIN st.windows THEN st
  ELSE IF st.windows[id].isMinimized THEN st
  ELSE
    LET prev == st.focusedWindowId
        s1 == IF prev # NoWindow /\ prev # id /\ prev \in DOMAIN st.windows
              THEN emit([st EXCEPT !.windows[prev].isFocused = FALSE],
                        WinEvent("blur", prev))
              ELSE st
        s2 == bringToFront(s1, id)
    IN emit([s2 EXCEPT !.windows[id].isFocused = TRUE,
                       !.focusedWindowId = id],
            WinEvent("focus", id))

\* throw new Error(message): the call ends here
throw(st, message) == [st EXCEPT !.thrown = message]

defaultBounds == [position |-> [x |-> 50, y |-> 50],
                  size |-> [width |-> 400, height |-> 300]]

\* no initialBounds argument
NoBounds == [position |-> Undefined, size |-> Undefined]

\* a || b on an optional object
OrElse(opt, default) == IF opt = Undefined THEN default ELSE opt[1]

WindowExists == "Window already exists"

\* createWindow without the has() test: it overwrites the live window
createWindow_NoDuplicateTest(st, id, initialBounds, constraints, inst) ==
  LET bounds == [position |-> OrElse(initialBounds.position, defaultBounds.position),
                 size |-> OrElse(initialBounds.size, defaultBounds.size)]
      windowState == [bounds |-> bounds,
                      zIndex |-> st.nextZIndex, isFocused |-> FALSE,
                      isMinimized |-> FALSE, isMaximized |-> FALSE,
                      isVisible |-> TRUE, instanceId |-> inst]
      s1 == [st EXCEPT
               !.nextZIndex = @ + 1,
               !.windows = [w \in DOMAIN st.windows \cup {id} |->
                              IF w = id THEN windowState ELSE st.windows[w]],
               !.windowOrder = Append(@, id),
               !.windowConstraints =
                  IF constraints = Undefined THEN @
                  ELSE [w \in DOMAIN @ \cup {id} |->
                          IF w = id THEN constraints[1] ELSE @[w]]]
      s2 == emit(s1, WinEvent("create", id))
  IN [s2 EXCEPT !.timers = Append(@, id)]

\* createWindow that focuses the new window before it returns
createWindow_FocusesAtOnce(st, id, initialBounds, constraints, inst) ==
  IF id \in DOMAIN st.windows THEN throw(st, WindowExists)
  ELSE
    LET s1 == createWindow_NoDuplicateTest(st, id, initialBounds, constraints, inst)
    IN focusWindow([s1 EXCEPT !.timers = st.timers], id)

\* createWindow that takes the new zIndex from the length of the order
createWindow_ZIndexFromLength(st, id, initialBounds, constraints, inst) ==
  IF id \in DOMAIN st.windows THEN throw(st, WindowExists)
  ELSE
    LET bounds == [position |-> OrElse(initialBounds.position, defaultBounds.position),
                   size |-> OrElse(initialBounds.size, defaultBounds.size)]
        windowState == [bounds |-> bounds,
                        zIndex |-> Len(st.windowOrder) + 1, isFocused |-> FALSE,
                        isMinimized |-> FALSE, isMaximized |-> FALSE,
                        isVisible |-> TRUE, instanceId |-> inst]
        s1 == [st EXCEPT
                 !.nextZIndex = @ + 1,
                 !.windows = [w \in DOMAIN st.windows \cup {id} |->
                                IF w = id THEN windowState ELSE st.windows[w]],
                 !.windowOrder = Append(@, id),
                 !.windowConstraints =
                    IF constraints = Undefined THEN @
                    ELSE [w \in DOMAIN @ \cup {id} |->
                            IF w = id THEN constraints[1] ELSE @[w]]]
        s2 == emit(s1, WinEvent("create", id))
    IN [s2 EXCEPT !.timers = Append(@, id)]

\* createWindow(id, appId, initialBounds, constraints, {instanceId: inst})
createWindow(st, id, initialBounds, constraints, inst) ==
  IF id \in DOMAIN st.windows THEN throw(st, WindowExists)
  ELSE
    LET bounds == [position |-> OrElse(initialBounds.position, defaultBounds.position),
                   size |-> OrElse(initialBounds.size, defaultBounds.size)]
        windowState == [bounds |-> bounds,
                        zIndex |-> st.nextZIndex, isFocused |-> FALSE,
                        isMinimized |-> FALSE, isMaximized |-> FALSE,
                        isVisible |-> TRUE, instanceId |-> inst]
        s1 == [st EXCEPT
                 !.nextZIndex = @ + 1,
                 !.windows = [w \in DOMAIN st.windows \cup {id} |->
                                IF w = id THEN windowState ELSE st.windows[w]],
                 !.windowOrder = Append(@, id),
                 !.windowConstraints =
                    IF constraints = Undefined THEN @
                    ELSE [w \in DOMAIN @ \cup {id} |->
                            IF w = id THEN constraints[1] ELSE @[w]]]
        s2 == emit(s1, WinEvent("create", id))
    IN [s2 EXCEPT !.timers = Append(@, id)]

destroyWindow(st, id) ==
  IF id \notin DOMAIN st.windows THEN st
  ELSE
    LET s1 == [st EXCEPT
                 !.windows = [w \in DOMAIN st.windows \ {id} |-> st.windows[w]],
                 !.windowOrder = Filter(@, id),
                 !.windowConstraints = [w \in DOMAIN @ \ {id} |-> @[w]]]
        nextWindow == getTopmostWindow(s1)
        s2 == IF s1.focusedWindowId = id
              THEN IF nextWindow # NoWindow
                   THEN [s1 EXCEPT !.timers = Append(@, nextWindow)]
                   ELSE [s1 EXCEPT !.focusedWindowId = NoWindow]
              ELSE s1
    IN emit(s2, WinEvent("destroy", id))

\* minimizeWindow that hands the focus on in a later step, as destroyWindow
\* does
minimizeWindow_Deferred(st, id) ==
  IF id \notin DOMAIN st.windows THEN st
  ELSE IF st.windows[id].isMinimized THEN st
  ELSE
    LET s1 == [st EXCEPT !.windows[id].isMinimized = TRUE,
                         !.windows[id].isFocused = FALSE]
        nextWindow == getTopmostWindow(s1)
        s2 == IF s1.focusedWindowId = id
              THEN IF nextWindow # NoWindow
                   THEN [s1 EXCEPT !.timers = Append(@, nextWindow)]
                   ELSE [s1 EXCEPT !.focusedWindowId = NoWindow]
              ELSE s1
    IN emit(s2, WinEvent("minimize", id))

minimizeWindow(st, id) ==
  IF id \notin DOMAIN st.windows THEN st
  ELSE IF st.windows[id].isMinimized THEN st
  ELSE
    LET s1 == [st EXCEPT !.windows[id].isMinimized = TRUE,
                         !.windows[id].isFocused = FALSE]
        nextWindow == getTopmostWindow(s1)
        s2 == IF s1.focusedWindowId = id
              THEN IF nextWindow # NoWindow
                   THEN focusWindow(s1, nextWindow)
                   ELSE [s1 EXCEPT !.focusedWindowId = NoWindow]
              ELSE s1
    IN emit(s2, WinEvent("minimize", id))

\* maximizeWindow that does not look the window up before it emits
maximizeWindow_NoLookup(st, id) ==
  IF id \notin DOMAIN st.windows THEN emit(st, WinEvent("maximize", id))
  ELSE IF st.windows[id].isMaximized THEN st
  ELSE emit([st EXCEPT !.windows[id].isMaximized = TRUE],
            WinEvent("maximize", id))

maximizeWindow(st, id) ==
  IF id \notin DOMAIN st.windows THEN st
  ELSE IF st.windows[id].isMaximized THEN st
  ELSE emit([st EXCEPT !.windows[id].isMaximized = TRUE],
            WinEvent("maximize", id))

restoreWindow(st, id) ==
  IF id \notin DOMAIN st.windows THEN st
  ELSE
    LET s1 == IF st.windows[id].isMinimized
              THEN focusWindow([st EXCEPT !.windows[id].isMinimized = FALSE,
                                          !.windows[id].isVisible = TRUE], id)
              ELSE IF st.windows[id].isMaximized
              THEN [st EXCEPT !.windows[id].isMaximized = FALSE]
              ELSE st
    IN emit(s1, WinEvent("restore", id))

\* `if (c)` on an optional number: undefined and 0 are falsy
Truthy(opt) == opt # Undefined /\ opt[1] # 0

Max(a, b) == IF a >= b THEN a ELSE b

Min(a, b) == IF a <= b THEN a ELSE b

\* windowConstraints.get(id)?.canMove === false
Forbids(st, id, what) ==
  id \in DOMAIN st.windowConstraints /\ ~st.windowConstraints[id][what]

\* moveWindow that does not consult the constraints
moveWindow_IgnoresConstraints(st, id, position) ==
  IF id \notin DOMAIN st.windows THEN st
  ELSE emit([st EXCEPT !.windows[id].bounds.position = position],
            WinEventWith("move", id, position))

moveWindow(st, id, position) ==
  IF id \notin DOMAIN st.windows THEN st
  ELSE IF Forbids(st, id, "canMove") THEN st
  ELSE emit([st EXCEPT !.windows[id].bounds.position = position],
            WinEventWith("move", id, position))

\* the clamping resizeWindow applies to one dimension: the minimum first,
\* then the maximum
clamp(v, lo, hi) ==
  LET v1 == IF Truthy(lo) THEN Max(v, lo[1]) ELSE v
  IN IF Truthy(hi) THEN Min(v1, hi[1]) ELSE v1

clampSize(st, id, size) ==
  IF id \in DOMAIN st.windowConstraints
  THEN LET c == st.windowConstraints[id]
       IN [width |-> clamp(size.width, c.minWidth, c.maxWidth),
           height |-> clamp(size.height, c.minHeight, c.maxHeight)]
  ELSE size

resizeWindow(st, id, size) ==
  IF id \notin DOMAIN st.windows THEN st
  ELSE IF Forbids(st, id, "canResize") THEN st
  ELSE emit([st EXCEPT !.windows[id].bounds.size = clampSize(st, id, size)],
            WinEventWith("resize", id, clampSize(st, id, size)))

(* ------------------- window registry: persistence ---------------------- *)
\* JSON.stringify of one WindowState: a metadata property that is undefined
\* is left out
ToJSON(w) ==
  [bounds |-> w.bounds, zIndex |-> w.zIndex, isFocused |-> w.isFocused,
   isMinimized |-> w.isMinimized, isMaximized |-> w.isMaximized,
   isVisible |-> w.isVisible,
   metadata |-> IF w.instanceId = NoInstance THEN Undefined
                ELSE Some([instanceId |-> w.instanceId])]

\* the WindowState JSON.parse gives back: a missing metadata reads as
\* undefined
FromJSON(j) ==
  [bounds |-> j.bounds, zIndex |-> j.zIndex, isFocused |-> j.isFocused,
   isMinimized |-> j.isMinimized, isMaximized |-> j.isMaximized,
   isVisible |-> j.isVisible,
   instanceId |-> IF j.metadata = Undefined THEN NoInstance
                  ELSE j.metadata[1].instanceId]

\* A blob is the text handed to loadSerializedState, by what JSON.parse
\* makes of it: kind "unparseable" (JSON.parse throws), "null" (the JSON
\* null), or "object", whose `windows` property is missing, a number, or an
\* array of [id, window] entries, and whose other three properties are
\* present.
Blob(kind, shape, entries, order, focused, next) ==
  [kind |-> kind, windowsShape |-> shape, windows |-> entries,
   windowOrder |-> order, focusedWindowId |-> focused, nextZIndex |-> next]

\* getSerializedState that leaves the z-index counter out of the snapshot,
\* so that a load starts counting from 1 again
getSerializedState_NoCounter(st) ==
  Blob("object", "entries",
       {<<id, ToJSON(st.windows[id])>> : id \in DOMAIN st.windows},
       st.windowOrder, st.focusedWindowId, 1)

getSerializedState(st) ==
  Blob("object", "entries",
       {<<id, ToJSON(st.windows[id])>> : id \in DOMAIN st.windows},
       st.windowOrder, st.focusedWindowId, st.nextZIndex)

\* JSON.parse, parsed.windows or new Map(parsed.windows) throws
loadThrows(blob) ==
  \/ blob.kind = "unparseable"
  \/ blob.kind = "null"
  \/ blob.kind = "object" /\ blob.windowsShape = "number"

\* what lastLoad records about a blob
BlobKind(blob) ==
  IF blob.kind # "object" THEN blob.kind
  ELSE IF blob.windowsShape = "entries" THEN "snapshot"
  ELSE IF blob.windowsShape = "number" THEN "windowsNotIterable"
  ELSE "windowsMissing"

\* new Map(parsed.windows): new Map(undefined) is the empty map
newMap(blob) ==
  IF blob.windowsShape = "entries"
  THEN [id \in {e[1] : e \in blob.windows} |->
          FromJSON((CHOOSE e \in blob.windows : e[1] = id)[2])]
  ELSE << >>

loadSerializedState(st, blob) ==
  IF loadThrows(blob) THEN [st EXCEPT !.loaded = BlobKind(blob)]
  ELSE [st EXCEPT !.windows = newMap(blob),
                  !.windowOrder = blob.windowOrder,
                  !.focusedWindowId = blob.focusedWindowId,
                  !.nextZIndex = blob.nextZIndex,
                  !.loaded = BlobKind(blob)]


(* ----------------------- application registry -------------------------- *)
\* The descriptors the model registers. A descriptor is fixed by its id:
\* "solo" is a singleton without background mode whose component has all
\* four hooks, "multi" is multi-instance, background-capable, hook-less.
AppIds == {"solo", "multi"}

Manifest(appId) ==
  [singleton |-> appId = "solo",
   supportsBackgroundMode |-> appId = "multi",
   hasHooks |-> appId = "solo"]

InstanceIds == 1..(MaxInstances + MaxOwners)

\* registry events: register and unregister
RegistryEvent(t, appId) == [type |-> t, instanceId |-> NoInstance, from |-> "", arg |-> appId]

AlreadyRegistered == "Application is already registered"

AppNotFound == "Application not found in registry"

InstanceNotFound == "Application instance not found"

\* Map.prototype.set: an existing key keeps its place in the iteration order
MapSet(entries, rec) ==
  IF \E i \in 1..Len(entries) : entries[i].id = rec.id
  THEN [i \in 1..Len(entries) |->
          IF entries[i].id = rec.id THEN rec ELSE entries[i]]
  ELSE Append(entries, rec)

\* Map.prototype.delete
MapDelete(entries, id) == SelectSeq(entries, LAMBDA e : e.id # id)

(* --------------------- lifecycle engine: helpers ----------------------- *)
AppEvent(t, i, from, a) == [type |-> t, instanceId |-> i, from |-> from, arg |-> a]

HookCall(h, i) == [hook |-> h, instanceId |-> i]

NoWindowsRemaining == "No windows remaining"

\* the lifecycle engine and the bridge as one value
LC == [instances |-> instances, nextInstance |-> nextInstance,
       windowToInstance |-> windowToInstance, tasks |-> tasks,
       apps |-> applications, events |-> << >>, hooks |-> << >>,
       unmountCalls |-> unmountCalls, terminateEvents |-> terminateEvents,
       launchReturn |-> launchReturn, launchCalls |-> launchCalls,
       errors |-> << >>, thrown |-> NoError,
       messageHandlers |-> messageHandlers, lastSend |-> Undefined,
       bridgeInstance |-> bridgeInstance, eventHandlers |-> eventHandlers,
       providerMounted |-> providerMounted]

emitApp(lc, ev) == [lc EXCEPT !.events = Append(@, ev)]

register(lc, appId) ==
  IF appId \in lc.apps THEN throw(lc, AlreadyRegistered)
  ELSE emitApp([lc EXCEPT !.apps = @ \cup {appId}],
               RegistryEvent("register", appId))

unregister(lc, appId) ==
  IF appId \notin lc.apps THEN lc
  ELSE emitApp([lc EXCEPT !.apps = @ \ {appId}],
               RegistryEvent("unregister", appId))

\* an async call suspended at an await: the operation, the instance and
\* application it captured, where it waits, whether the component it looked
\* up has the hook, and terminate's reason
Task(op, i, appId, pc, hook, reason) ==
  [op |-> op, inst |-> i, appId |-> appId, pc |-> pc, hook |-> hook,
   reason |-> reason]

spawn(lc, t) == [lc EXCEPT !.tasks = @ (+) SetToBag({t})]

\* app?.component.<hook> as seen by a call that looked the app up
HasHook(lc, appId) == appId \in lc.apps /\ Manifest(appId).hasHooks

transitionState(lc, i, from, to) ==
  IF i \notin DOMAIN lc.instances THEN lc
  ELSE IF lc.instances[i].state # from THEN lc
  ELSE emitApp([lc EXCEPT !.instances[i].state = to],
               AppEvent("stateChange", i, from, to))

\* findInstanceByAppId that only sees running instances
findInstanceByAppId_RunningOnly(lc, appId) ==
  LET same == {i \in DOMAIN lc.instances :
                 lc.instances[i].appId = appId /\ lc.instances[i].state = "running"}
  IN IF same = {} THEN NoInstance
     ELSE CHOOSE i \in same : \A j \in same : i <= j

\* the id of the instance findInstanceByAppId returns, NoInstance for
\* undefined; the Map iterates in insertion order, which is id order
findInstanceByAppId(lc, appId) ==
  LET same == {i \in DOMAIN lc.instances : lc.instances[i].appId = appId}
  IN IF same = {} THEN NoInstance
     ELSE CHOOSE i \in same : \A j \in same : i <= j

(* ---------------- lifecycle engine: synchronous parts ------------------ *)
\* launch up to its first await; the caller gets lc.launchReturn[appId]
launch(lc, appId) ==
  IF appId \notin lc.apps THEN throw(lc, AppNotFound)
  ELSE
    LET existing == findInstanceByAppId(lc, appId)
    IN IF Manifest(appId).singleton /\ existing # NoInstance
       THEN [lc EXCEPT !.launchReturn[appId] = existing,
                       !.launchCalls[appId] = IF @ < 2 THEN @ + 1 ELSE @]
       ELSE
         LET i == lc.nextInstance
             inst == [appId |-> appId, state |-> "loading", windowIds |-> << >>]
             s1 == [lc EXCEPT
                      !.instances = [j \in DOMAIN lc.instances \cup {i} |->
                                       IF j = i THEN inst ELSE lc.instances[j]],
                      !.nextInstance = @ + 1,
                      !.launchReturn[appId] = i,
                      !.launchCalls[appId] = IF @ < 2 THEN @ + 1 ELSE @]
             s2 == emitApp(s1, AppEvent("launch", i, "", appId))
             s3 == transitionState(s2, i, "loading", "running")
         IN spawn(s3, Task("launch", i, appId, "transition", HasHook(lc, appId), ""))

terminate(lc, i, reason) ==
  IF i \notin DOMAIN lc.instances THEN lc
  ELSE
    LET appId == lc.instances[i].appId
        s1 == transitionState(lc, i, lc.instances[i].state, "stopping")
        s2 == [s1 EXCEPT !.launchReturn[appId] = NoInstance,
                         !.launchCalls[appId] = 0]
    IN spawn(s2, Task("terminate", i, appId, "transition", HasHook(lc, appId), reason))

\* suspend that tests only that the instance exists
suspend_NoStateCheck(lc, i) ==
  IF i \notin DOMAIN lc.instances THEN lc
  ELSE spawn(transitionState(lc, i, "running", "suspended"),
             Task("suspend", i, lc.instances[i].appId, "transition",
                  HasHook(lc, lc.instances[i].appId), ""))

suspend(lc, i) ==
  IF i \notin DOMAIN lc.instances THEN lc
  ELSE IF lc.instances[i].state # "running" THEN lc
  ELSE spawn(transitionState(lc, i, "running", "suspended"),
             Task("suspend", i, lc.instances[i].appId, "transition",
                  HasHook(lc, lc.instances[i].appId), ""))

resume(lc, i) ==
  IF i \notin DOMAIN lc.instances THEN lc
  ELSE IF lc.instances[i].state # "suspended" THEN lc
  ELSE spawn(transitionState(lc, i, "suspended", "running"),
             Task("resume", i, lc.instances[i].appId, "transition",
                  HasHook(lc, lc.instances[i].appId), ""))

\* addWindowToInstance without the includes() test
addWindowToInstance_NoDedup(lc, i, w) ==
  IF i \in DOMAIN lc.instances
  THEN [lc EXCEPT !.instances[i].windowIds = Append(@, w)]
  ELSE lc

addWindowToInstance(lc, i, w) ==
  IF i \in DOMAIN lc.instances /\ w \notin Range(lc.instances[i].windowIds)
  THEN [lc EXCEPT !.instances[i].windowIds = Append(@, w)]
  ELSE lc

\* removeWindowFromInstance that never terminates the instance
removeWindowFromInstance_NoTerminate(lc, i, w) ==
  IF i \notin DOMAIN lc.instances THEN lc
  ELSE [lc EXCEPT !.instances[i].windowIds = Filter(@, w)]

removeWindowFromInstance(lc, i, w) ==
  IF i \notin DOMAIN lc.instances THEN lc
  ELSE
    LET s1 == [lc EXCEPT !.instances[i].windowIds = Filter(@, w)]
        appId == lc.instances[i].appId
    IN IF /\ Len(s1.instances[i].windowIds) = 0
          /\ ~(appId \in lc.apps /\ Manifest(appId).supportsBackgroundMode)
       THEN terminate(s1, i, NoWindowsRemaining)
       ELSE s1

(* ------------------- window-application bridge ------------------------- *)
handleWindowDestroy(lc, w) ==
  IF w \in DOMAIN lc.windowToInstance
  THEN LET i == lc.windowToInstance[w]
           s1 == [lc EXCEPT !.windowToInstance =
                    [x \in DOMAIN lc.windowToInstance \ {w} |->
                       lc.windowToInstance[x]]]
       IN removeWindowFromInstance(s1, i, w)
  ELSE lc

setWindowToInstance(lc, w, i) ==
  [lc EXCEPT !.windowToInstance =
     [x \in DOMAIN lc.windowToInstance \cup {w} |->
        IF x = w THEN i ELSE lc.windowToInstance[x]]]

handleWindowCreate(lc, w, i) ==
  IF i # NoInstance
  THEN addWindowToInstance(setWindowToInstance(lc, w, i), i, w)
  ELSE lc

\* the subscriber the bridge registers with the window manager
BridgeHandler == "bridge"

bridgeListener(lc, wmEvs, inst) ==
  IF wmEvs = << >> THEN lc
  ELSE IF Last(wmEvs).type = "create"
  THEN handleWindowCreate(lc, Last(wmEvs).windowId, inst)
  ELSE IF Last(wmEvs).type = "destroy"
  THEN handleWindowDestroy(lc, Last(wmEvs).windowId)
  ELSE lc

\* the window registry's emit: eventHandlers.forEach(handler => handler(event))
emitToHandlers(lc, wmEvs, inst) ==
  IF BridgeHandler \in lc.eventHandlers
  THEN bridgeListener(lc, wmEvs, inst)
  ELSE lc

\* windowManager.subscribe(handler), and the unsubscribe it returns
subscribe(lc, handler) == [lc EXCEPT !.eventHandlers = @ \cup {handler}]

unsubscribe(lc, handler) == [lc EXCEPT !.eventHandlers = @ \ {handler}]

createWindowApplicationBridge(lc) == subscribe(lc, BridgeHandler)

\* bridge.destroy()
destroy(lc) == unsubscribe(lc, BridgeHandler)

\* the cached bridge is returned whenever there is one
initializeWindowApplicationBridge(lc) ==
  IF lc.bridgeInstance = Undefined
  THEN [createWindowApplicationBridge(lc) EXCEPT
          !.bridgeInstance = Some(BridgeHandler)]
  ELSE lc

(* --------------- lifecycle engine: after the awaits -------------------- *)
callHook(lc, h, i) == [lc EXCEPT !.hooks = Append(@, HookCall(h, i))]

\* the catch block around an awaited hook: console.error and nothing else
logError(lc, h, i) == [lc EXCEPT !.errors = Append(@, HookCall(h, i))]

\* try { await hook() } catch (error) { console.error(...) }
settled(lc, h, i, ok) == IF ok THEN lc ELSE logError(lc, h, i)

moveTask(lc, t, pc) ==
  [lc EXCEPT !.tasks = (@ (-) SetToBag({t})) (+) SetToBag({[t EXCEPT !.pc = pc]})]

endTask(lc, t) == [lc EXCEPT !.tasks = @ (-) SetToBag({t})]

\* terminate's clean-up: instances.delete, messageHandlers.delete, then
\* emit terminate
finishTerminate(lc, t) ==
  LET s1 == [lc EXCEPT
               !.instances = [j \in DOMAIN lc.instances \ {t.inst} |->
                                lc.instances[j]],
               !.messageHandlers = MapDelete(@, t.inst),
               !.terminateEvents[t.inst] = @ + 1,
               !.launchReturn[t.appId] = NoInstance,
               !.launchCalls[t.appId] = 0]
  IN endTask(emitApp(s1, AppEvent("terminate", t.inst, "", t.reason)), t)

\* launch resumes after `await transitionState(...)`: it calls onMount and
\* awaits it, or returns the instance
launchAfterTransition(lc, t) ==
  IF t.hook THEN moveTask(callHook(lc, "onMount", t.inst), t, "hook")
  ELSE endTask(lc, t)

\* onMount settled: fulfilled, launch returns; rejected, the catch block
\* runs up to `await transitionState(instanceId, 'running', 'crashed')`
launchAfterMount(lc, t, ok) ==
  IF ok THEN endTask(lc, t)
  ELSE moveTask(transitionState(logError(lc, "onMount", t.inst),
                                t.inst, "running", "crashed"), t, "crash")

launchAfterCrash(lc, t) ==
  endTask(emitApp(lc, AppEvent("error", t.inst, "", "")), t)

terminateAfterTransition(lc, t) ==
  IF t.hook
  THEN moveTask(callHook([lc EXCEPT !.unmountCalls[t.inst] = @ + 1],
                         "onUnmount", t.inst), t, "hook")
  ELSE finishTerminate(lc, t)

suspendAfterTransition(lc, t) ==
  IF t.hook THEN moveTask(callHook(lc, "onSuspend", t.inst), t, "hook")
  ELSE endTask(emitApp(lc, AppEvent("suspend", t.inst, "", "")), t)

\* the unmount hook settled: terminate cleans up either way
terminateAfterUnmount(lc, t, ok) ==
  finishTerminate(settled(lc, "onUnmount", t.inst, ok), t)

\* suspend whose catch block rethrows: a failed hook ends the call
suspendAfterHook_Rethrows(lc, t, ok) ==
  IF ok THEN endTask(emitApp(lc, AppEvent("suspend", t.inst, "", "")), t)
  ELSE endTask(logError(lc, "onSuspend", t.inst), t)

suspendAfterHook(lc, t, ok) ==
  endTask(emitApp(settled(lc, "onSuspend", t.inst, ok),
                  AppEvent("suspend", t.inst, "", "")), t)

resumeAfterTransition(lc, t) ==
  IF t.hook THEN moveTask(callHook(lc, "onResume", t.inst), t, "hook")
  ELSE endTask(emitApp(lc, AppEvent("resume", t.inst, "", "")), t)

resumeAfterHook(lc, t, ok) ==
  endTask(emitApp(settled(lc, "onResume", t.inst, ok),
                  AppEvent("resume", t.inst, "", "")), t)

(* ------------------- lifecycle engine: messages ------------------------ *)
\* the recipient '*': an identity no instance has
Broadcast == -1

HandlerThrew == "message handler threw"

\* registerMessageHandler(instanceId, handler)
registerMessageHandler(lc, instanceId, handler) ==
  [lc EXCEPT !.messageHandlers = MapSet(@, [id |-> instanceId, handler |-> handler])]

\* handler(message) for the entries of list in turn: an exception leaves the
\* loop, and the call
RECURSIVE callHandlers(_, _)
callHandlers(lc, list) ==
  IF list = << >> THEN lc
  ELSE LET s1 == [lc EXCEPT !.lastSend[1].invoked = Append(@, Head(list).id)]
       IN IF Head(list).handler = "throws" THEN throw(s1, HandlerThrew)
          ELSE callHandlers(s1, Tail(list))

\* sendMessage(message)
sendMessage(lc, from, to) ==
  LET s1 == [lc EXCEPT !.lastSend = Some([from |-> from, to |-> to, invoked |-> << >>])]
  IN IF to = Broadcast
     THEN callHandlers(s1, SelectSeq(lc.messageHandlers, LAMBDA h : h.id # from))
     ELSE callHandlers(s1, SelectSeq(lc.messageHandlers, LAMBDA h : h.id = to))

(* --------------------- input router: shortcut keys --------------------- *)
\* String.prototype.toLowerCase on the key names the callers use
toLowerCase(k) ==
  CASE k = "Ctrl" -> "ctrl"
    [] k = "N" -> "n"
    [] k = "Shift" -> "shift"
    [] OTHER -> k

\* the order Array.prototype.sort gives the lower-case key names
KeyRank(k) ==
  CASE k = "alt" -> 1 [] k = "ctrl" -> 2 [] k = "meta" -> 3
    [] k = "n" -> 4 [] k = "shift" -> 5 [] OTHER -> 6

normalizeKeys(keys) ==
  SortSeq([i \in 1..Len(keys) |-> toLowerCase(keys[i])],
          LAMBDA a, b : KeyRank(a) < KeyRank(b))

keysMatch(shortcutKeys, eventKeys) ==
  LET normalizedShortcut == normalizeKeys(shortcutKeys)
      normalizedEvent == normalizeKeys(eventKeys)
  IN IF Len(normalizedShortcut) # Len(normalizedEvent) THEN FALSE
     ELSE \A i \in 1..Len(normalizedShortcut) :
            normalizedShortcut[i] \in Range(normalizedEvent)

NoModifiers == [ctrl |-> FALSE, alt |-> FALSE, shift |-> FALSE, meta |-> FALSE]

\* event.modifiers || {ctrl: false, alt: false, shift: false, meta: false}
getModifiersFromEvent(event) == OrElse(event.modifiers, NoModifiers)

buildEventKeys(event) ==
  LET modifiers == getModifiersFromEvent(event)
      k1 == IF modifiers.ctrl THEN <<"ctrl">> ELSE << >>
      k2 == IF modifiers.alt THEN Append(k1, "alt") ELSE k1
      k3 == IF modifiers.shift THEN Append(k2, "shift") ELSE k2
      k4 == IF modifiers.meta THEN Append(k3, "meta") ELSE k3
  IN IF event.key # Undefined THEN Append(k4, toLowerCase(event.key[1])) ELSE k4

(* -------------------- input router: context filters -------------------- *)
\* an InputContext: every field is optional
Context(windowId, appId, elementType, interactionMode, priority) ==
  [windowId |-> windowId, appId |-> appId, elementType |-> elementType,
   interactionMode |-> interactionMode, priority |-> priority]

\* `if (filter.f && filter.f !== eventContext.f) return false`
FieldAdmits(filter, eventContext, f) ==
  filter[f] = Undefined \/ filter[f] = eventContext[f]

\* contextMatches of the interaction registry
handlerContextMatches(handlerContext, eventContext) ==
  IF eventContext = Undefined THEN FALSE
  ELSE \A f \in {"windowId", "appId", "elementType", "interactionMode"} :
         FieldAdmits(handlerContext, eventContext[1], f)

\* contextMatches of the shortcut registry: the shortcut's context is
\* optional, and elementType is not compared
shortcutContextMatches(shortcutContext, eventContext) ==
  IF shortcutContext = Undefined THEN TRUE
  ELSE IF eventContext = Undefined THEN FALSE
  ELSE \A f \in {"windowId", "appId", "interactionMode"} :
         FieldAdmits(shortcutContext[1], eventContext[1], f)

(* ------------------- input router: the router's state ------------------ *)
\* the router, its two registries and its recognizers as one value
IS == [shortcuts |-> shortcuts, handlers |-> handlers,
       gestureDefinitions |-> gestureDefinitions, enabled |-> inputEnabled,
       recentEvents |-> recentEvents, eventHistory |-> eventHistory,
       nextEvent |-> nextEvent, tapStart |-> tapStart,
       dragStart |-> dragStart, isDragging |-> isDragging,
       swipeStart |-> swipeStart, longPress |-> longPress,
       chains |-> chains, invoked |-> << >>, recognized |-> << >>,
       errors |-> << >>, returned |-> << >>, handled |-> FALSE,
       gestureLog |-> gestureLog]

\* a consumer is called with the event (or with the gesture made from it)
Invocation(kind, id, event) == [kind |-> kind, id |-> id, event |-> event.id]

invoke(st, kind, id, event) ==
  [st EXCEPT !.invoked = Append(@, Invocation(kind, id, event))]

\* console.error(`Error ... "${id}":`, error)
logInputError(st, kind, id) ==
  [st EXCEPT !.errors = Append(@, [kind |-> kind, id |-> id])]

\* list.sort((a, b) => p(b) - p(a)), where p[i] is the priority of s[i]:
\* descending, and stable, so elements of equal priority keep the order
\* they had: an element's place is the number of elements that go before it
sortDescending(s, p) ==
  LET before(i) == {j \in 1..Len(s) : p[j] > p[i] \/ (p[j] = p[i] /\ j < i)}
  IN [k \in 1..Len(s) |->
        s[CHOOSE i \in 1..Len(s) : Cardinality(before(i)) = k - 1]]

(* ------------------ input router: the shortcut registry ---------------- *)
\* a.context?.priority ?? 0
shortcutPriority(shortcut) ==
  IF shortcut.context = Undefined THEN 0
  ELSE OrElse(shortcut.context[1].priority, 0)

\* the priorities of a list of shortcuts
shortcutPriorities(list) == [i \in 1..Len(list) |-> shortcutPriority(list[i])]

\* register(shortcut) of the shortcut registry
registerShortcut(st, shortcut) ==
  [st EXCEPT !.shortcuts =
     MapSet(@, [shortcut EXCEPT !.enabled = <<OrElse(@, TRUE)>>])]

unregisterShortcut(st, id) == [st EXCEPT !.shortcuts = MapDelete(@, id)]

\* the enabled shortcuts whose context and keys match the event
matchingShortcuts(st, event) ==
  SelectSeq(st.shortcuts,
            LAMBDA sc : /\ sc.enabled[1]
                        /\ shortcutContextMatches(sc.context, event.context)
                        /\ keysMatch(sc.keys, buildEventKeys(event)))

\* handleKeyEvent that calls every matching shortcut
handleKeyEvent_CallsAll(st, event) ==
  IF event.type # "key.down" THEN st
  ELSE IF buildEventKeys(event) = << >> THEN st
  ELSE LET matching == matchingShortcuts(st, event)
           sorted == sortDescending(matching, shortcutPriorities(matching))
       IN [st EXCEPT !.invoked = @ \o [i \in 1..Len(sorted) |->
                        Invocation("shortcut", sorted[i].id, event)],
                     !.handled = sorted # << >>]

\* handleKeyEvent(event): st.handled is what it returns. A handler returns,
\* throws, or returns a promise that rejects (its catch runs in the same
\* macrotask)
handleKeyEvent(st, event) ==
  IF event.type # "key.down" THEN st
  ELSE IF buildEventKeys(event) = << >> THEN st
  ELSE LET matching == matchingShortcuts(st, event)
           sorted == sortDescending(matching, shortcutPriorities(matching))
       IN IF sorted = << >> THEN st
          ELSE LET shortcut == sorted[1]
                   s1 == invoke(st, "shortcut", shortcut.id, event)
               IN CASE shortcut.handler = "throws" ->
                         logInputError(s1, "shortcut", shortcut.id)
                    [] shortcut.handler = "rejects" ->
                         [logInputError(s1, "shortcut", shortcut.id)
                            EXCEPT !.handled = TRUE]
                    [] OTHER -> [s1 EXCEPT !.handled = TRUE]

(* ---------------- input router: the interaction registry --------------- *)
\* register(handler) of the interaction registry
registerHandler(st, handler) == [st EXCEPT !.handlers = MapSet(@, handler)]

unregisterHandler(st, id) == [st EXCEPT !.handlers = MapDelete(@, id)]

\* canHandle is the handler's own predicate: here, a set of event types
getMatchingHandlers(st, event) ==
  SelectSeq(st.handlers,
            LAMBDA h : /\ event.type \in h.canHandle
                       /\ handlerContextMatches(h.context, event.context))

handlerPriority(h) == h.priority

\* what one processEvent call reports when it returns: its result, whether
\* a shortcut consumed the event, the handlers that were candidates, in
\* the order of the sort, and the ones that were called
Return(event, result, byShortcut, candidates, calls) ==
  [event |-> event.id, result |-> result, byShortcut |-> byShortcut,
   candidates |-> candidates, calls |-> calls]

return(st, r) == [st EXCEPT !.returned = Append(@, r)]

\* a handleEvent call waiting for the handler it has just called: the
\* handlers still to try were fixed by the sort before the loop
Chain(event, candidates, calls, rest) ==
  [event |-> event, candidates |-> candidates, calls |-> calls, rest |-> rest]

\* the loop of handleEvent reaches its next handler, or its end
tryNext(st, c) ==
  IF c.rest = << >>
  THEN return(st, Return(c.event, FALSE, FALSE, c.candidates, c.calls))
  ELSE LET handler == Head(c.rest)
       IN [invoke(st, "handler", handler.id, c.event) EXCEPT
             !.chains = Append(@, Chain(c.event, c.candidates,
                                        Append(c.calls, handler), Tail(c.rest)))]

\* handleEvent(event) up to its first await
handleEvent(st, event) ==
  LET matchingHandlers == getMatchingHandlers(st, event)
      sorted == sortDescending(matchingHandlers,
                  [i \in 1..Len(matchingHandlers) |->
                     handlerPriority(matchingHandlers[i])])
  IN tryNext(st, Chain(event, sorted, << >>, sorted))

\* handleEvent that goes on to the next handler whatever the last returned
afterHandle_NeverStops(st, i) ==
  LET c == st.chains[i]
      handler == Last(c.calls)
      s1 == [st EXCEPT !.chains = Without(@, i)]
  IN IF handler.handle = "throws"
     THEN tryNext(logInputError(s1, "handler", handler.id), c)
     ELSE tryNext(s1, c)

\* handleEvent after `await handler.handle(event)` of its i-th pending call
afterHandle(st, i) ==
  LET c == st.chains[i]
      handler == Last(c.calls)
      s1 == [st EXCEPT !.chains = Without(@, i)]
  IN CASE handler.handle = "consumes" ->
            return(s1, Return(c.event, TRUE, FALSE, c.candidates, c.calls))
       [] handler.handle = "throws" ->
            tryNext(logInputError(s1, "handler", handler.id), c)
       [] OTHER -> tryNext(s1, c)

(* ------------------ input router: gesture recognizers ------------------ *)
IsPress(e) == e.type \in {"mouse.down", "touch.start"}

IsMove(e) == e.type \in {"mouse.move", "touch.move"}

IsRelease(e) == e.type \in {"mouse.up", "touch.end"}

\* distance(p1, p2) squared: the coordinates are integers, and the square
\* root is monotone and exact on squares, so dist <= 10 is Dist2 <= 100 and
\* dist >= 10 is Dist2 >= 100
Dist2(p1, p2) == (p2.x - p1.x) * (p2.x - p1.x) + (p2.y - p1.y) * (p2.y - p1.y)

\* `a.position && b.position ? distance(a.position, b.position) : 0`
EventDist2(a, b) ==
  IF a.position # Undefined /\ b.position # Undefined
  THEN Dist2(a.position[1], b.position[1]) ELSE 0

\* a GestureEvent: its type and state, the event it was made from (which
\* gives its timestamp, position and context) and its data
Gesture(type, state, lastEvent, data) ==
  [type |-> type, state |-> state, event |-> lastEvent.id,
   context |-> lastEvent.context, data |-> data]

\* recognizedGestures.push(gesture), and processEvent's emit of it
recognize(st, gesture) ==
  [st EXCEPT !.recognized = Append(@, gesture),
             !.gestureLog = Append(@, gesture)]

TapMaxDistance2 == 10 * 10

TapMaxDuration == 300

\* createTapGestureRecognizer().recognize(events)
tapRecognize(st, events) ==
  IF events = << >> THEN st
  ELSE
    LET lastEvent == Last(events) IN
    IF IsPress(lastEvent) /\ st.tapStart = Undefined
    THEN recognize([st EXCEPT !.tapStart = Some(lastEvent)],
                   Gesture("tap", "start", lastEvent, [start |-> lastEvent.id]))
    ELSE IF IsRelease(lastEvent) /\ st.tapStart # Undefined
    THEN LET startEvent == st.tapStart[1]
             duration == lastEvent.timestamp - startEvent.timestamp
             isValidTap == /\ duration <= TapMaxDuration
                           /\ EventDist2(startEvent, lastEvent) <= TapMaxDistance2
             s1 == [st EXCEPT !.tapStart = Undefined]
         IN IF isValidTap
            THEN recognize(s1, Gesture("tap", "end", lastEvent,
                                       [start |-> startEvent.id]))
            ELSE s1
    ELSE st

DragMinDistance2 == 10 * 10

\* `a.position && b.position ? a.position.x - b.position.x : 0`
Delta(a, b, axis) ==
  IF a.position # Undefined /\ b.position # Undefined
  THEN a.position[1][axis] - b.position[1][axis] ELSE 0

\* the drag recognizer without the test of isDragging on a release
dragRecognize_AlwaysEnds(st, events) ==
  IF events = << >> THEN st
  ELSE
    LET lastEvent == Last(events) IN
    IF IsPress(lastEvent) /\ st.dragStart = Undefined
    THEN [st EXCEPT !.dragStart = Some(lastEvent), !.isDragging = FALSE]
    ELSE IF IsMove(lastEvent) /\ st.dragStart # Undefined
            /\ (st.isDragging
                \/ EventDist2(st.dragStart[1], lastEvent) >= DragMinDistance2)
    THEN LET startEvent == st.dragStart[1] IN
         IF ~st.isDragging
         THEN recognize([st EXCEPT !.isDragging = TRUE],
                        Gesture("drag", "start", lastEvent,
                                [start |-> startEvent.id]))
         ELSE recognize(st, Gesture("drag", "update", lastEvent,
                                    [start |-> startEvent.id,
                                     deltaX |-> Delta(lastEvent, startEvent, "x"),
                                     deltaY |-> Delta(lastEvent, startEvent, "y")]))
    ELSE IF IsRelease(lastEvent) /\ st.dragStart # Undefined
    THEN recognize([st EXCEPT !.dragStart = Undefined, !.isDragging = FALSE],
                   Gesture("drag", "end", lastEvent,
                           [start |-> st.dragStart[1].id]))
    ELSE st

\* createDragGestureRecognizer().recognize(events)
dragRecognize(st, events) ==
  IF events = << >> THEN st
  ELSE
    LET lastEvent == Last(events) IN
    IF IsPress(lastEvent) /\ st.dragStart = Undefined
    THEN [st EXCEPT !.dragStart = Some(lastEvent), !.isDragging = FALSE]
    ELSE IF IsMove(lastEvent) /\ st.dragStart # Undefined
            /\ (st.isDragging
                \/ EventDist2(st.dragStart[1], lastEvent) >= DragMinDistance2)
    THEN LET startEvent == st.dragStart[1] IN
         IF ~st.isDragging
         THEN recognize([st EXCEPT !.isDragging = TRUE],
                        Gesture("drag", "start", lastEvent,
                                [start |-> startEvent.id]))
         ELSE recognize(st, Gesture("drag", "update", lastEvent,
                                    [start |-> startEvent.id,
                                     deltaX |-> Delta(lastEvent, startEvent, "x"),
                                     deltaY |-> Delta(lastEvent, startEvent, "y")]))
    ELSE IF IsRelease(lastEvent) /\ st.dragStart # Undefined /\ st.isDragging
    THEN recognize([st EXCEPT !.dragStart = Undefined, !.isDragging = FALSE],
                   Gesture("drag", "end", lastEvent,
                           [start |-> st.dragStart[1].id]))
    ELSE st

SwipeMinDistance2 == 50 * 50

SwipeMaxDuration == 500

\* the swipe recognizer without the test of the duration
swipeRecognize_AnyDuration(st, events) ==
  IF events = << >> THEN st
  ELSE
    LET lastEvent == Last(events) IN
    IF IsPress(lastEvent) /\ st.swipeStart = Undefined
    THEN [st EXCEPT !.swipeStart = Some(lastEvent)]
    ELSE IF IsRelease(lastEvent) /\ st.swipeStart # Undefined
    THEN LET startEvent == st.swipeStart[1]
             duration == lastEvent.timestamp - startEvent.timestamp
             dist2 == EventDist2(startEvent, lastEvent)
             isValidSwipe == /\ dist2 >= SwipeMinDistance2
                             /\ duration > 0
                             /\ 100 * dist2 >= duration * duration
             s1 == [st EXCEPT !.swipeStart = Undefined]
         IN IF isValidSwipe
            THEN recognize(s1, Gesture("swipe", "end", lastEvent,
                                       [start |-> startEvent.id]))
            ELSE s1
    ELSE st

\* createSwipeGestureRecognizer().recognize(events); velocity >= 0.1 is
\* duration > 0 and 10 * dist >= duration
swipeRecognize(st, events) ==
  IF events = << >> THEN st
  ELSE
    LET lastEvent == Last(events) IN
    IF IsPress(lastEvent) /\ st.swipeStart = Undefined
    THEN [st EXCEPT !.swipeStart = Some(lastEvent)]
    ELSE IF IsRelease(lastEvent) /\ st.swipeStart # Undefined
    THEN LET startEvent == st.swipeStart[1]
             duration == lastEvent.timestamp - startEvent.timestamp
             dist2 == EventDist2(startEvent, lastEvent)
             isValidSwipe == /\ duration <= SwipeMaxDuration
                             /\ dist2 >= SwipeMinDistance2
                             /\ duration > 0
                             /\ 100 * dist2 >= duration * duration
             s1 == [st EXCEPT !.swipeStart = Undefined]
         IN IF isValidSwipe
            THEN recognize(s1, Gesture("swipe", "end", lastEvent,
                                       [start |-> startEvent.id]))
            ELSE s1
    ELSE st

LongPressMaxDistance2 == 10 * 10

\* the long-press recognizer at rest
NoLongPress == [start |-> Undefined, triggered |-> FALSE, timer |-> FALSE]

\* the long-press recognizer without the test of triggered on a release
longPressRecognize_AnyRelease(st, events) ==
  IF events = << >> THEN st
  ELSE
    LET lastEvent == Last(events) IN
    IF IsPress(lastEvent) /\ st.longPress.start = Undefined
    THEN [st EXCEPT !.longPress = [start |-> Some(lastEvent),
                                   triggered |-> FALSE, timer |-> TRUE]]
    ELSE IF IsMove(lastEvent) /\ st.longPress.start # Undefined
            /\ EventDist2(st.longPress.start[1], lastEvent) > LongPressMaxDistance2
    THEN [st EXCEPT !.longPress = NoLongPress]
    ELSE IF IsRelease(lastEvent) /\ st.longPress.start # Undefined
    THEN recognize([st EXCEPT !.longPress = NoLongPress],
                   Gesture("long-press", "end", lastEvent,
                           [start |-> st.longPress.start[1].id]))
    ELSE st

\* createLongPressGestureRecognizer().recognize(events): timer says that
\* the callback of setTimeout(..., duration) is pending
longPressRecognize(st, events) ==
  IF events = << >> THEN st
  ELSE
    LET lastEvent == Last(events) IN
    IF IsPress(lastEvent) /\ st.longPress.start = Undefined
    THEN [st EXCEPT !.longPress = [start |-> Some(lastEvent),
                                   triggered |-> FALSE, timer |-> TRUE]]
    ELSE IF IsMove(lastEvent) /\ st.longPress.start # Undefined
            /\ EventDist2(st.longPress.start[1], lastEvent) > LongPressMaxDistance2
    THEN [st EXCEPT !.longPress = NoLongPress]
    ELSE IF IsRelease(lastEvent) /\ st.longPress.start # Undefined
    THEN LET s1 == [st EXCEPT !.longPress = NoLongPress]
         IN IF st.longPress.triggered
            THEN recognize(s1, Gesture("long-press", "end", lastEvent,
                                       [start |-> st.longPress.start[1].id]))
            ELSE s1
    ELSE st

\* the callback of the long-press recognizer's setTimeout
longPressTimeout(st) ==
  [st EXCEPT !.longPress.timer = FALSE,
             !.longPress.triggered = @ \/ st.longPress.start # Undefined]

\* registerGesture(gesture)
registerGesture(st, gesture) ==
  [st EXCEPT !.gestureDefinitions =
     MapSet(@, [gesture EXCEPT !.enabled = <<OrElse(@, TRUE)>>])]

\* one custom definition in the loop of recognizeGestures: its recognizer
\* is the caller's (here it recognizes on the event types it names), and
\* its handler is called with whatever it recognized
customRecognize(st, definition, events) ==
  IF ~definition.enabled[1] THEN st
  ELSE IF events = << >> \/ Last(events).type \notin definition.recognizes THEN st
  ELSE LET lastEvent == Last(events)
           s1 == recognize(st, Gesture("custom", "end", lastEvent,
                                       [definition |-> definition.id]))
           s2 == invoke(s1, "gesture", definition.id, lastEvent)
       IN IF definition.handler \in {"throws", "rejects"}
          THEN logInputError(s2, "gesture", definition.id)
          ELSE s2

RECURSIVE customRecognizeAll(_, _, _)
customRecognizeAll(st, definitions, events) ==
  IF definitions = << >> THEN st
  ELSE customRecognizeAll(customRecognize(st, Head(definitions), events),
                          Tail(definitions), events)

\* recognizeGestures(events): the four default recognizers in the order of
\* their Map, then the custom definitions in the order of theirs
recognizeGestures(st, events) ==
  customRecognizeAll(
    longPressRecognize(
      swipeRecognize(dragRecognize(tapRecognize(st, events), events), events),
      events),
    st.gestureDefinitions, events)

(* ------------------------ input router: the router --------------------- *)
RecentCap == 10

HistoryCap == 100

\* addToHistory that trims the history to the size of the recent window
addToHistory_OneCap(st, event) ==
  LET h == Append(st.eventHistory, event)
      r == Append(st.recentEvents, event)
  IN [st EXCEPT !.eventHistory = IF Len(h) > RecentCap THEN Tail(h) ELSE h,
                !.recentEvents = IF Len(r) > RecentCap THEN Tail(r) ELSE r,
                !.nextEvent = @ + 1]

addToHistory(st, event) ==
  LET h == Append(st.eventHistory, event)
      r == Append(st.recentEvents, event)
  IN [st EXCEPT !.eventHistory = IF Len(h) > HistoryCap THEN Tail(h) ELSE h,
                !.recentEvents = IF Len(r) > RecentCap THEN Tail(r) ELSE r,
                !.nextEvent = @ + 1]

\* processEvent that tries the interaction handlers whatever the shortcut did
processEvent_AlwaysRoutes(st, event) ==
  IF ~st.enabled
  THEN return(st, Return(event, FALSE, FALSE, << >>, << >>))
  ELSE
    LET s1 == addToHistory(st, event)
        s2 == IF event.type \in {"key.down", "key.up", "key.press"}
              THEN handleKeyEvent(s1, event) ELSE s1
        s3 == recognizeGestures(s2, s2.recentEvents)
    IN handleEvent(s3, event)

\* processEvent(event) up to its await, or to its return when it does not
\* reach one
processEvent(st, event) ==
  IF ~st.enabled
  THEN return(st, Return(event, FALSE, FALSE, << >>, << >>))
  ELSE
    LET s1 == addToHistory(st, event)
        s2 == IF event.type \in {"key.down", "key.up", "key.press"}
              THEN handleKeyEvent(s1, event) ELSE s1
        s3 == recognizeGestures(s2, s2.recentEvents)
    IN IF s3.handled
       THEN return(s3, Return(event, TRUE, TRUE, << >>, << >>))
       ELSE handleEvent(s3, event)

(* ------------------------------ steps ---------------------------------- *)
CommitWM(st) ==
  /\ windows' = st.windows
  /\ windowOrder' = st.windowOrder
  /\ focusedWindowId' = st.focusedWindowId
  /\ nextZIndex' = st.nextZIndex
  /\ timers' = st.timers
  /\ wmEvents' = st.events
  /\ windowConstraints' = st.windowConstraints
  /\ wmThrown' = st.thrown
  /\ lastLoad' = st.loaded
  /\ lastTimer' = st.fired
  /\ UNCHANGED inVars

CommitLC(lc) ==
  /\ applications' = lc.apps
  /\ instances' = lc.instances
  /\ nextInstance' = lc.nextInstance
  /\ windowToInstance' = lc.windowToInstance
  /\ tasks' = lc.tasks
  /\ appEvents' = lc.events
  /\ hookCalls' = lc.hooks
  /\ unmountCalls' = lc.unmountCalls
  /\ terminateEvents' = lc.terminateEvents
  /\ launchReturn' = lc.launchReturn
  /\ launchCalls' = lc.launchCalls
  /\ errorLog' = lc.errors
  /\ appThrown' = lc.thrown
  /\ messageHandlers' = lc.messageHandlers
  /\ lastSend' = lc.lastSend
  /\ bridgeInstance' = lc.bridgeInstance
  /\ eventHandlers' = lc.eventHandlers
  /\ providerMounted' = lc.providerMounted

WMInit ==
  /\ windows = << >>
  /\ windowOrder = << >>
  /\ focusedWindowId = NoWindow
  /\ nextZIndex = 1
  /\ timers = << >>
  /\ wmEvents = << >>
  /\ refocusOwed = FALSE
  /\ windowConstraints = << >>
  /\ wmThrown = NoError
  /\ lastLoad = "none"
  /\ lastTimer = NoWindow

AppInit ==
  /\ applications = {}
  /\ instances = << >>
  /\ nextInstance = 1
  /\ windowToInstance = << >>
  /\ tasks = EmptyBag
  /\ appEvents = << >>
  /\ hookCalls = << >>
  /\ unmountCalls = [i \in InstanceIds |-> 0]
  /\ terminateEvents = [i \in InstanceIds |-> 0]
  /\ terminateCalled = {}
  /\ launchReturn = [a \in AppIds |-> NoInstance]
  /\ launchCalls = [a \in AppIds |-> 0]
  /\ errorLog = << >>
  /\ appThrown = NoError
  /\ messageHandlers = << >>
  /\ lastSend = Undefined

InputInit ==
  /\ shortcuts = << >>
  /\ handlers = << >>
  /\ gestureDefinitions = << >>
  /\ inputEnabled = TRUE
  /\ recentEvents = << >>
  /\ eventHistory = << >>
  /\ nextEvent = 1
  /\ tapStart = Undefined
  /\ dragStart = Undefined
  /\ isDragging = FALSE
  /\ swipeStart = Undefined
  /\ longPress = NoLongPress
  /\ chains = << >>
  /\ invoked = << >>
  /\ recognized = << >>
  /\ inputErrors = << >>
  /\ returned = << >>
  /\ gestureLog = << >>

\* the provider has mounted once: its effect made the bridge, which
\* subscribed its listener to the window registry
BridgeMounted ==
  /\ bridgeInstance = Some(BridgeHandler)
  /\ eventHandlers = {BridgeHandler}
  /\ providerMounted = TRUE

\* the modules are loaded and the provider has not mounted yet
BridgeUnset ==
  /\ bridgeInstance = Undefined
  /\ eventHandlers = {}
  /\ providerMounted = FALSE

Init == WMInit /\ AppInit /\ InputInit /\ BridgeMounted

ModuleInit == WMInit /\ AppInit /\ InputInit /\ BridgeUnset

CommitIS(st) ==
  /\ shortcuts' = st.shortcuts
  /\ handlers' = st.handlers
  /\ gestureDefinitions' = st.gestureDefinitions
  /\ inputEnabled' = st.enabled
  /\ recentEvents' = st.recentEvents
  /\ eventHistory' = st.eventHistory
  /\ nextEvent' = st.nextEvent
  /\ tapStart' = st.tapStart
  /\ dragStart' = st.dragStart
  /\ isDragging' = st.isDragging
  /\ swipeStart' = st.swipeStart
  /\ longPress' = st.longPress
  /\ chains' = st.chains
  /\ invoked' = st.invoked
  /\ recognized' = st.recognized
  /\ inputErrors' = st.errors
  /\ returned' = st.returned
  /\ gestureLog' = st.gestureLog
  /\ UNCHANGED <<wmVars, appVars>>

\* the timestamp of the event processed last: Date.now() does not go back
Now == IF eventHistory = << >> THEN 0 ELSE Last(eventHistory).timestamp

\* createInputEvent, as far as the router reads the event: dt is the time
\* since the last event
InputEvent(type, dt, position, context, modifiers, key) ==
  [id |-> nextEvent, type |-> type, timestamp |-> Now + dt,
   position |-> position, context |-> context, modifiers |-> modifiers,
   key |-> key]

RegisterShortcut(shortcut) == CommitIS(registerShortcut(IS, shortcut))

UnregisterShortcut(id) == CommitIS(unregisterShortcut(IS, id))

RegisterHandler(handler) == CommitIS(registerHandler(IS, handler))

UnregisterHandler(id) == CommitIS(unregisterHandler(IS, id))

RegisterGesture(gesture) == CommitIS(registerGesture(IS, gesture))

Enable == CommitIS([IS EXCEPT !.enabled = TRUE])

Disable == CommitIS([IS EXCEPT !.enabled = FALSE])

ProcessEvent(event) == CommitIS(processEvent(IS, event))

\* the promise a pending handleEvent call awaits settles
HandlerSettles ==
  \E i \in 1..Len(chains) : CommitIS(afterHandle(IS, i))

LongPressTimeout ==
  /\ longPress.timer
  /\ CommitIS(longPressTimeout(IS))


\* a step of the window registry that emits neither create nor destroy
\* leaves the bridge and the lifecycle engine alone
Quiet == CommitLC(LC) /\ UNCHANGED terminateCalled

\* createWindow(id, appId, initialBounds, constraints, {instanceId: inst}); a
\* throwing createWindow emits nothing, so the bridge is not run
CreateWindow(id, initialBounds, constraints, inst) ==
  /\ LET st == createWindow(WM, id, initialBounds, constraints, inst)
     IN CommitWM(st) /\ CommitLC(emitToHandlers(LC, st.events, inst))
  /\ UNCHANGED <<refocusOwed, terminateCalled>>

DestroyWindow(id) ==
  /\ LET st == destroyWindow(WM, id)
     IN CommitWM(st) /\ CommitLC(emitToHandlers(LC, st.events, NoInstance))
  /\ refocusOwed' = (refocusOwed \/ (id \in DOMAIN windows /\ focusedWindowId = id))
  /\ UNCHANGED terminateCalled

FocusWindow(id) ==
  /\ CommitWM(focusWindow(WM, id))
  /\ refocusOwed' = FALSE
  /\ Quiet

MinimizeWindow(id) ==
  /\ CommitWM(minimizeWindow(WM, id))
  /\ UNCHANGED refocusOwed
  /\ Quiet

MaximizeWindow(id) ==
  /\ CommitWM(maximizeWindow(WM, id))
  /\ UNCHANGED refocusOwed
  /\ Quiet

RestoreWindow(id) ==
  /\ CommitWM(restoreWindow(WM, id))
  /\ refocusOwed' = FALSE
  /\ Quiet

MoveWindow(id, position) ==
  /\ CommitWM(moveWindow(WM, id, position))
  /\ UNCHANGED refocusOwed
  /\ Quiet

ResizeWindow(id, size) ==
  /\ CommitWM(resizeWindow(WM, id, size))
  /\ UNCHANGED refocusOwed
  /\ Quiet

\* loadSerializedState(blob): what it throws inside is caught and logged
LoadSerializedState(blob) ==
  /\ CommitWM(loadSerializedState(WM, blob))
  /\ CommitLC(IF loadThrows(blob)
              THEN logError(LC, "loadSerializedState", NoInstance) ELSE LC)
  /\ UNCHANGED <<refocusOwed, terminateCalled>>

\* the registry when the oldest deferred focus step starts
TimerFires == [WM EXCEPT !.timers = Tail(@), !.fired = Head(timers)]

\* the oldest pending setTimeout(() => api.focusWindow(id), 0) fires
DeferredFocus ==
  /\ timers # << >>
  /\ CommitWM(focusWindow(TimerFires, Head(timers)))
  /\ UNCHANGED refocusOwed
  /\ Quiet

\* the constraints createWindowForApp builds for an application without
\* windowDefaults
bridgeConstraints ==
  [canMove |-> TRUE, canResize |-> TRUE,
   minWidth |-> Undefined, maxWidth |-> Undefined,
   minHeight |-> Undefined, maxHeight |-> Undefined]

bridgeBounds == [position |-> Some([x |-> 100, y |-> 100]),
                 size |-> Some([width |-> 400, height |-> 300])]

\* bridge.createWindowForApp(i, options), the clock giving window id `id`
CreateWindowForApp(i, id) ==
  /\ IF i \notin DOMAIN instances
     THEN CommitWM(WM) /\ CommitLC(throw(LC, InstanceNotFound))
     ELSE IF instances[i].appId \notin applications
     THEN CommitWM(WM) /\ CommitLC(throw(LC, AppNotFound))
     ELSE LET st == createWindow(WM, id, bridgeBounds, Some(bridgeConstraints), i)
              s1 == emitToHandlers(LC, st.events, i)
          IN /\ CommitWM(st)
             /\ IF st.thrown # NoError
                THEN CommitLC(LC)      \* createWindow's error passes through
                ELSE CommitLC(addWindowToInstance(setWindowToInstance(s1, id, i), i, id))
  /\ UNCHANGED <<refocusOwed, terminateCalled>>

WMQuiet == CommitWM(WM) /\ UNCHANGED refocusOwed

Register(appId) ==
  /\ CommitLC(register(LC, appId)) /\ WMQuiet
  /\ UNCHANGED terminateCalled

Unregister(appId) ==
  /\ CommitLC(unregister(LC, appId)) /\ WMQuiet
  /\ UNCHANGED terminateCalled

Launch(appId) ==
  /\ CommitLC(launch(LC, appId)) /\ WMQuiet
  /\ UNCHANGED terminateCalled

Terminate(i, reason) ==
  /\ CommitLC(terminate(LC, i, reason)) /\ WMQuiet
  /\ terminateCalled' = IF i \in DOMAIN instances
                        THEN terminateCalled \cup {i} ELSE terminateCalled

Suspend(i) ==
  /\ CommitLC(suspend(LC, i)) /\ WMQuiet
  /\ UNCHANGED terminateCalled

Resume(i) ==
  /\ CommitLC(resume(LC, i)) /\ WMQuiet
  /\ UNCHANGED terminateCalled

Continue(lc) ==
  /\ CommitLC(lc) /\ WMQuiet
  /\ UNCHANGED terminateCalled

Waiting(op, pc) == {t \in BagToSet(tasks) : t.op = op /\ t.pc = pc}

LaunchAfterTransition ==
  \E t \in Waiting("launch", "transition") : Continue(launchAfterTransition(LC, t))

LaunchAfterMount ==
  \E t \in Waiting("launch", "hook") : \E ok \in BOOLEAN :
    Continue(launchAfterMount(LC, t, ok))

LaunchAfterCrash ==
  \E t \in Waiting("launch", "crash") : Continue(launchAfterCrash(LC, t))

TerminateAfterTransition ==
  \E t \in Waiting("terminate", "transition") :
    Continue(terminateAfterTransition(LC, t))

TerminateAfterUnmount ==
  \E t \in Waiting("terminate", "hook") : \E ok \in BOOLEAN :
    Continue(terminateAfterUnmount(LC, t, ok))

SuspendAfterTransition ==
  \E t \in Waiting("suspend", "transition") :
    Continue(suspendAfterTransition(LC, t))

SuspendAfterHook ==
  \E t \in Waiting("suspend", "hook") : \E ok \in BOOLEAN :
    Continue(suspendAfterHook(LC, t, ok))

ResumeAfterTransition ==
  \E t \in Waiting("resume", "transition") :
    Continue(resumeAfterTransition(LC, t))

ResumeAfterHook ==
  \E t \in Waiting("resume", "hook") : \E ok \in BOOLEAN :
    Continue(resumeAfterHook(LC, t, ok))

(* --------- how far the callers go (the bounds of the search) ----------- *)
\* the call may schedule one more deferred focus
TimerFree == Len(timers) < MaxTimers

\* the call may start one more async call
TaskFree(n) == BagCardinality(tasks) < n

\* launch(a) returns the existing instance of a singleton
LaunchReturnsEarly(a) ==
  Manifest(a).singleton /\ findInstanceByAppId(LC, a) # NoInstance

\* the callers of the lifecycle engine launch what is registered
MayLaunch(a, maxInst, maxTasks) ==
  /\ a \in applications
  /\ LaunchReturnsEarly(a) \/ (nextInstance <= maxInst /\ TaskFree(maxTasks))

\* and register an application once
MayRegister(a) == a \notin applications

(* ------------- geometry and persistence: what callers pass ------------- *)
GeomWindowIds == {"w1", "w2"}

Constraints(canMove, canResize, minW, maxW, minH, maxH) ==
  [canMove |-> canMove, canResize |-> canResize,
   minWidth |-> minW, maxWidth |-> maxW, minHeight |-> minH, maxHeight |-> maxH]

\* a window that may neither move nor resize
Fixed == Constraints(FALSE, FALSE, Undefined, Undefined, Undefined, Undefined)

\* minimum and maximum declared for both dimensions
Ranged == Constraints(TRUE, TRUE, Some(200), Some(800), Some(150), Some(600))

\* a declared minimum of 0, and a height with a maximum only
FromZero == Constraints(TRUE, TRUE, Some(0), Some(800), Undefined, Some(600))

\* what the creator of each window passes: the first window is fixed or has
\* a minimum of 0, the second has no constraints or the full range
ConstraintChoices(id) ==
  IF id = "w1" THEN {Some(Fixed), Some(FromZero)} ELSE {Undefined, Some(Ranged)}

Positions == {[x |-> 120, y |-> 80]}

Sizes == {[width |-> -10, height |-> 100], [width |-> 500, height |-> 400],
          [width |-> 1000, height |-> 700]}

\* the window registry without geometry: its callers maximize, move and
\* resize only through stale references (StoreNext and GeomNext have the
\* live ones; isMaximized is read by restoreWindow alone and bounds by
\* nothing)
WMNext ==
  \/ \E id \in WindowIds :
       TimerFree /\ nextZIndex < MaxZIndex
       /\ CreateWindow(id, NoBounds, Undefined, NoInstance)
  \/ \E id \in WindowIds : TimerFree /\ DestroyWindow(id)
  \/ \E id \in WindowIds : FocusWindow(id)
  \/ \E id \in WindowIds : MinimizeWindow(id)
  \/ \E id \in WindowIds : RestoreWindow(id)
  \/ \E id \in WindowIds \ DOMAIN windows : MaximizeWindow(id)
  \/ \E id \in WindowIds \ DOMAIN windows : MoveWindow(id, defaultBounds.position)
  \/ \E id \in WindowIds \ DOMAIN windows : ResizeWindow(id, defaultBounds.size)
  \/ DeferredFocus

\* the window registry with constraints and geometry
GeomNext ==
  \/ \E id \in GeomWindowIds : \E c \in ConstraintChoices(id) :
       TimerFree /\ nextZIndex < MaxZIndex /\ CreateWindow(id, NoBounds, c, NoInstance)
  \/ \E id \in GeomWindowIds : TimerFree /\ DestroyWindow(id)
  \/ \E id \in GeomWindowIds : \E p \in Positions : MoveWindow(id, p)
  \/ \E id \in GeomWindowIds : \E sz \in Sizes : ResizeWindow(id, sz)
  \/ DeferredFocus

\* the texts loadSerializedState is given: the snapshot just taken, text
\* that is not JSON, the JSON null, an object whose windows property is a
\* number, and an object without a windows property
Blobs ==
  {getSerializedState(WM),
   Blob("unparseable", "missing", {}, << >>, NoWindow, 1),
   Blob("null", "missing", {}, << >>, NoWindow, 1),
   Blob("object", "number", {}, << >>, NoWindow, 1),
   Blob("object", "missing", {}, << >>, NoWindow, 1)}

\* the instance a window's metadata names: w1 is created with an
\* instanceId in its metadata, w2 without metadata
StoreOwner(id) == IF id = "w1" THEN 1 ELSE NoInstance

\* the window registry with persistence: every window operation, and loads
\* of good and bad blobs in between
StoreNext ==
  \/ \E id \in GeomWindowIds :
       TimerFree /\ nextZIndex < MaxZIndex
       /\ CreateWindow(id, NoBounds, Undefined, StoreOwner(id))
  \/ \E id \in GeomWindowIds : TimerFree /\ DestroyWindow(id)
  \/ \E id \in GeomWindowIds : FocusWindow(id)
  \/ \E id \in GeomWindowIds : MinimizeWindow(id)
  \/ \E id \in GeomWindowIds : MaximizeWindow(id)
  \/ \E id \in GeomWindowIds : RestoreWindow(id)
  \/ \E id \in GeomWindowIds : \E p \in Positions : MoveWindow(id, p)
  \/ \E blob \in Blobs : LoadSerializedState(blob)
  \/ DeferredFocus

\* instance identities are unguessable (app id, clock and a random
\* suffix), so window metadata can only name an instance already launched
Launched == 1..(nextInstance - 1)

AppWindowIds == {"w1", "w2"}

Reasons == {"user"}

AsyncNext ==
  \/ LaunchAfterTransition
  \/ LaunchAfterMount
  \/ LaunchAfterCrash
  \/ TerminateAfterTransition
  \/ TerminateAfterUnmount
  \/ SuspendAfterTransition
  \/ SuspendAfterHook
  \/ ResumeAfterTransition
  \/ ResumeAfterHook

RegisterMessageHandler(i, handler) ==
  /\ CommitLC(registerMessageHandler(LC, i, handler)) /\ WMQuiet
  /\ UNCHANGED terminateCalled

SendMessage(from, to) ==
  /\ CommitLC(sendMessage(LC, from, to)) /\ WMQuiet
  /\ UNCHANGED terminateCalled

MessageInstances == 1..MaxMessageInstances

\* the second instance's handler throws, the others' return
MessageHandlerOf(i) == IF i = 2 THEN "throws" ELSE "returns"

\* instances of the multi-instance application, which has no hooks, come
\* and go, register handlers and send each other messages
MessageNext ==
  \/ MayRegister("multi") /\ Register("multi")
  \/ MayLaunch("multi", MaxMessageInstances, 1) /\ Launch("multi")
  \/ \E i \in MessageInstances : TaskFree(1) /\ Terminate(i, "quit")
  \/ LaunchAfterTransition
  \/ TerminateAfterTransition
  \/ \E i \in MessageInstances : RegisterMessageHandler(i, MessageHandlerOf(i))
  \/ \E from \in MessageInstances : \E to \in MessageInstances \cup {Broadcast} :
       SendMessage(from, to)

\* the lifecycle engine on its own: no window is ever created
LifeNext ==
  \/ \E a \in AppIds : MayRegister(a) /\ Register(a)
  \/ \E a \in AppIds : MayLaunch(a, MaxInstances, MaxTasks) /\ Launch(a)
  \/ \E i \in InstanceIds : \E r \in Reasons : TaskFree(MaxTasks) /\ Terminate(i, r)
  \/ \E i \in InstanceIds : TaskFree(MaxTasks) /\ Suspend(i)
  \/ \E i \in InstanceIds : TaskFree(MaxTasks) /\ Resume(i)
  \/ AsyncNext

\* the bridge between the window registry and the lifecycle engine. The
\* callers here create windows (under a fresh identity) and destroy them
\* once the pending deferred focus steps have run: those steps emit
\* neither create nor destroy, so the bridge never sees them. A caller that creates a window itself passes the
\* bounds and constraints the bridge would, and its own instance or none.
BridgeNextFor(apps, maxTasks) ==
  \/ \E a \in apps : MayRegister(a) /\ Register(a)
  \/ \E a \in apps : MayLaunch(a, MaxOwners, maxTasks) /\ Launch(a)
  \/ \E id \in AppWindowIds \ DOMAIN windows : \E i \in Launched \cup {NoInstance} :
       timers = << >> /\ nextZIndex < MaxZIndex
       /\ CreateWindow(id, bridgeBounds, Some(bridgeConstraints), i)
  \/ \E id \in AppWindowIds \ DOMAIN windows : \E i \in Launched :
       timers = << >> /\ nextZIndex < MaxZIndex /\ CreateWindowForApp(i, id)
  \/ \E id \in AppWindowIds :
       timers = << >> /\ TaskFree(maxTasks) /\ DestroyWindow(id)
  \/ DeferredFocus
  \/ LaunchAfterTransition
  \/ LaunchAfterMount
  \/ LaunchAfterCrash
  \/ TerminateAfterTransition
  \/ TerminateAfterUnmount

\* both applications, one call in flight at a time
BridgeNext == BridgeNextFor(AppIds, MaxTasks)

\* the application that has no background mode, with its calls overlapping
SoloBridgeNext == BridgeNextFor({"solo"}, MaxPending)

\* ApplicationManagerProvider's effect: initializeWindowApplicationBridge on
\* mount, bridge.destroy() as its clean-up
MountProvider ==
  /\ ~providerMounted
  /\ CommitLC([initializeWindowApplicationBridge(LC) EXCEPT
                 !.providerMounted = TRUE])
  /\ WMQuiet /\ UNCHANGED terminateCalled

UnmountProvider ==
  /\ providerMounted
  /\ CommitLC([destroy(LC) EXCEPT !.providerMounted = FALSE])
  /\ WMQuiet /\ UNCHANGED terminateCalled

\* the provider mounts and unmounts while the background-capable
\* application's instance opens and closes windows
ProviderNext ==
  \/ MountProvider
  \/ UnmountProvider
  \/ MayRegister("multi") /\ Register("multi")
  \/ MayLaunch("multi", MaxOwners, MaxTasks) /\ Launch("multi")
  \/ \E id \in AppWindowIds \ DOMAIN windows : \E i \in Launched :
       timers = << >> /\ nextZIndex < MaxZIndex
       /\ CreateWindow(id, bridgeBounds, Some(bridgeConstraints), i)
  \/ \E id \in AppWindowIds : timers = << >> /\ DestroyWindow(id)
  \/ DeferredFocus
  \/ LaunchAfterTransition

\* the background-capable application: its descriptor comes and goes while
\* its instances and their windows live
BackgroundNext ==
  \/ MayRegister("multi") /\ Register("multi")
  \/ Unregister("multi")
  \/ MayLaunch("multi", MaxOwners, MaxTasks) /\ Launch("multi")
  \/ \E id \in AppWindowIds \ DOMAIN windows : \E i \in Launched :
       timers = << >> /\ nextZIndex < MaxZIndex
       /\ CreateWindow(id, bridgeBounds, Some(bridgeConstraints), i)
  \/ \E id \in AppWindowIds :
       timers = << >> /\ TaskFree(MaxTasks) /\ DestroyWindow(id)
  \/ DeferredFocus
  \/ LaunchAfterTransition
  \/ TerminateAfterTransition

HookReasons == {"user", "update"}

\* HookNext follows the first instance launched through all its calls
HookInstances == {1}

\* the lifecycle engine driven on the application whose component has the
\* hooks, with calls overlapping while a hook is awaited
HookNext ==
  \/ MayRegister("solo") /\ Register("solo")
  \/ MayLaunch("solo", Cardinality(HookInstances), MaxPending) /\ Launch("solo")
  \/ \E i \in HookInstances : \E r \in HookReasons :
       TaskFree(MaxPending) /\ Terminate(i, r)
  \/ \E i \in HookInstances : TaskFree(MaxPending) /\ Suspend(i)
  \/ \E i \in HookInstances : TaskFree(MaxPending) /\ Resume(i)
  \/ AsyncNext

ConflictConstraints == {Undefined, Some(Fixed)}

\* callers that collide: a createWindow under a live identity, a register
\* of a registered application, a launch of an unregistered one
ConflictNext ==
  \/ \E a \in AppIds : Register(a)
  \/ \E a \in AppIds : Unregister(a)
  \/ \E a \in AppIds : a \notin applications /\ Launch(a)
  \/ \E id \in GeomWindowIds : \E c \in ConflictConstraints :
       /\ id \in DOMAIN windows \/ (TimerFree /\ nextZIndex < MaxZIndex)
       /\ CreateWindow(id, NoBounds, c, NoInstance)
  \/ \E id \in GeomWindowIds : TimerFree /\ DestroyWindow(id)
  \/ \E id \in GeomWindowIds : MinimizeWindow(id)
  \/ DeferredFocus

(* ------------- input router: what the callers of keys pass ------------- *)
\* the context createInputEvent gives an event: state.currentContext
SystemContext == Context(Undefined, Undefined, Undefined, Some("system"), Undefined)

Modifiers(ctrl, shift) == [ctrl |-> ctrl, alt |-> FALSE, shift |-> shift, meta |-> FALSE]

KeyEvent(type, modifiers, key) ==
  InputEvent(type, 0, Undefined, Some(SystemContext), modifiers, key)

\* key events: ctrl+n in both cases of the letter, n alone without a
\* modifiers record, the Shift key itself, ctrl without a key, an event
\* without any key, and the key-up and key-press of ctrl+n
KeyEvents ==
  {KeyEvent("key.down", Some(Modifiers(TRUE, FALSE)), Some("n")),
   KeyEvent("key.down", Some(Modifiers(TRUE, FALSE)), Some("N")),
   KeyEvent("key.down", Undefined, Some("n")),
   KeyEvent("key.down", Some(Modifiers(FALSE, TRUE)), Some("Shift")),
   KeyEvent("key.down", Some(Modifiers(TRUE, FALSE)), Undefined),
   KeyEvent("key.down", Some(Modifiers(FALSE, FALSE)), Undefined),
   KeyEvent("key.up", Some(Modifiers(TRUE, FALSE)), Some("n")),
   KeyEvent("key.press", Some(Modifiers(TRUE, FALSE)), Some("n"))}

\* key lists: a combination in two orders and cases, a list that repeats a
\* key, and single keys
KeyLists == {<<"ctrl", "n">>, <<"N", "Ctrl">>, <<"ctrl", "ctrl">>, <<"n">>,
             <<"shift">>}

ShortcutIds == {"s1", "s2"}

\* a global shortcut, one with priority 5 for the system mode, and one
\* for a window the key events do not come from
KeyContexts ==
  {Undefined,
   Some(Context(Undefined, Undefined, Undefined, Some("system"), Some(5))),
   Some(Context(Some("w1"), Undefined, Undefined, Undefined, Some(5)))}

Shortcut(id, keys, context, enabled, handler) ==
  [id |-> id, keys |-> keys, context |-> context, enabled |-> enabled,
   handler |-> handler]

\* the first shortcut's handler returns, the second's throws
KeyHandlerOf(id) == IF id = "s1" THEN "returns" ELSE "throws"

\* the first shortcut takes every key list and context, enabled or not; the
\* second is for ctrl+n or shift, global or for the system mode
ShortcutChoices(id) ==
  IF id = "s1"
  THEN {Shortcut(id, keys, c, en, KeyHandlerOf(id)) :
          keys \in KeyLists, c \in KeyContexts, en \in {Undefined, Some(FALSE)}}
  ELSE {Shortcut(id, keys, c, Undefined, KeyHandlerOf(id)) :
          keys \in {<<"ctrl", "n">>, <<"shift">>},
          c \in {k \in KeyContexts : k = Undefined \/ k[1].windowId = Undefined}}

\* the shortcut registry under key events, with no interaction handler and
\* no custom gesture registered
KeysNext ==
  \/ \E id \in ShortcutIds : \E sc \in ShortcutChoices(id) : RegisterShortcut(sc)
  \/ \E id \in ShortcutIds : UnregisterShortcut(id)
  \/ \E e \in KeyEvents : nextEvent <= MaxKeyEvents /\ ProcessEvent(e)

(* ----------- input router: what the callers of contexts pass ----------- *)
\* a filter with no field set
NoFields == Context(Undefined, Undefined, Undefined, Undefined, Undefined)

\* the context of a button of window w1 of application a1
ButtonContext == Context(Some("w1"), Some("a1"), Some("button"), Some("window"), Undefined)

\* filters: no field set, each field set to the value ButtonContext has,
\* and each field set to another value
ContextFilters ==
  {NoFields} \cup
  {[NoFields EXCEPT ![f] = ButtonContext[f]] :
     f \in {"windowId", "appId", "elementType", "interactionMode"}} \cup
  {[NoFields EXCEPT !.windowId = Some("w2")], [NoFields EXCEPT !.appId = Some("a2")],
   [NoFields EXCEPT !.elementType = Some("input")],
   [NoFields EXCEPT !.interactionMode = Some("app")]}

\* an event may carry no context, one with no field set, or the button's
EventContexts == {Undefined, Some(NoFields), Some(ButtonContext)}

\* ctrl+n, and a mouse press
ContextEvents ==
  {InputEvent("key.down", 0, Undefined, c, Some(Modifiers(TRUE, FALSE)), Some("n")) :
     c \in EventContexts} \cup
  {InputEvent("mouse.down", 0, Some([x |-> 0, y |-> 0]), c, Some(NoModifiers), Undefined) :
     c \in EventContexts}

EventTypes == {"mouse.down", "mouse.up", "mouse.move", "key.down", "key.up", "key.press"}

Handler(id, priority, context, canHandle, handle) ==
  [id |-> id, priority |-> priority, context |-> context,
   canHandle |-> canHandle, handle |-> handle]

GestureDefinition(id, context, recognizes, enabled, handler) ==
  [id |-> id, context |-> context, recognizes |-> recognizes,
   enabled |-> enabled, handler |-> handler]

\* one shortcut, one interaction handler and one custom gesture, each under
\* every filter, and one event
ContextNext ==
  \/ \E c \in {Undefined} \cup {Some(f) : f \in ContextFilters} :
       RegisterShortcut(Shortcut("s1", <<"ctrl", "n">>, c, Undefined, "returns"))
  \/ UnregisterShortcut("s1")
  \/ \E f \in ContextFilters :
       RegisterHandler(Handler("h1", 0, f, EventTypes, "consumes"))
  \/ UnregisterHandler("h1")
  \/ \E c \in {Undefined} \cup {Some(f) : f \in ContextFilters} :
       RegisterGesture(GestureDefinition("g1", c, {"mouse.down"}, Undefined, "returns"))
  \/ \E e \in ContextEvents : nextEvent <= MaxContextEvents /\ ProcessEvent(e)
  \/ HandlerSettles
  \/ LongPressTimeout

(* ---------- input router: what the callers of handlers pass ------------ *)
HandlerIds == {"h1", "h2", "h3"}

\* the first handler consumes, the second throws (or rejects), the third
\* declines
HandleOf(id) ==
  CASE id = "h1" -> "consumes" [] id = "h2" -> "throws" [] OTHER -> "declines"

\* the third handler's predicate accepts key-up events only
CanHandleOf(id) == IF id = "h3" THEN {"key.up"} ELSE EventTypes

Priorities == {1, 5}

\* ctrl+n goes down, and up
RouteEvents ==
  {InputEvent(t, 0, Undefined, Some(SystemContext), Some(Modifiers(TRUE, FALSE)),
              Some("n")) : t \in {"key.down", "key.up"}}

\* up to three interaction handlers and one shortcut for ctrl+n; handlers
\* come and go while a handleEvent call is waiting
RouteNext ==
  \/ \E id \in HandlerIds : \E p \in Priorities :
       /\ chains = << >>
       /\ RegisterHandler(Handler(id, p, NoFields, CanHandleOf(id), HandleOf(id)))
  \/ \E id \in HandlerIds : UnregisterHandler(id)
  \/ \E h \in {"returns", "throws", "rejects"} :
       /\ chains = << >>
       /\ RegisterShortcut(Shortcut("s1", <<"ctrl", "n">>, Undefined, Undefined, h))
  \/ chains = << >> /\ UnregisterShortcut("s1")
  \/ \E e \in RouteEvents :
       /\ nextEvent <= MaxRouteEvents /\ Len(chains) < MaxChains
       /\ ProcessEvent(e)
  \/ HandlerSettles

(* ------------- input router: a long run of events ---------------------- *)
\* the pointer moves with no button down, as handleMouseMove reports it
HistoryEvent ==
  InputEvent("mouse.move", 1, Some([x |-> 0, y |-> 0]), Some(SystemContext),
             Some(NoModifiers), Undefined)

\* more events than the history keeps, with the router switched off and on
\* in between
HistoryNext ==
  \/ nextEvent <= MaxHistoryEvents /\ ProcessEvent(HistoryEvent)
  \/ inputEnabled /\ Disable
  \/ ~inputEnabled /\ Enable

(* ------------- input router: what the pointer does --------------------- *)
Point(x, y) == [x |-> x, y |-> y]

PointerEvent(type, dt, position) ==
  InputEvent(type, dt, Some(position), Some(SystemContext), Some(NoModifiers),
             Undefined)

\* the button goes down at one of two places; the pointer moves, 80 after
\* the last event, to a place 0, about 4 or 20 away from the first; the
\* button goes up 120 or 400 after the last event
PointerEvents ==
  {PointerEvent("mouse.down", 0, p) : p \in {Point(0, 0), Point(20, 0)}} \cup
  {PointerEvent("mouse.move", 80, p) :
     p \in {Point(0, 0), Point(3, 3), Point(20, 0)}} \cup
  {PointerEvent("mouse.up", dt, p) :
     dt \in {120, 400}, p \in {Point(0, 0), Point(3, 3), Point(20, 0)}}

\* the default recognizers under pointer events, with no shortcut, handler
\* or custom gesture registered
GestureNext ==
  \/ \E e \in PointerEvents : nextEvent <= MaxGestureEvents /\ ProcessEvent(e)
  \/ LongPressTimeout

\* the button goes down at one of two places, the pointer moves 300 after
\* the last event, and the button goes up at once or 500 or 800 after the
\* last event, 40, 50 or 60 away from the first place
SwipeEvents ==
  {PointerEvent("mouse.down", 0, p) : p \in {Point(0, 0), Point(60, 0)}} \cup
  {PointerEvent("mouse.move", 300, Point(30, 0))} \cup
  {PointerEvent("mouse.up", dt, p) :
     dt \in {0, 500, 800}, p \in {Point(40, 0), Point(50, 0), Point(60, 0)}}

\* the default recognizers under presses and releases far apart
SwipeNext ==
  \/ \E e \in SwipeEvents : nextEvent <= MaxSwipeEvents /\ ProcessEvent(e)
  \/ LongPressTimeout

RegistryNext ==
  \/ \E a \in AppIds : Register(a)
  \/ \E a \in AppIds : Unregister(a)

Next == WMNext \/ RegistryNext \/ LifeNext \/ BridgeNext \/ SoloBridgeNext
          \/ HookNext \/ GeomNext
          \/ StoreNext \/ ConflictNext
          \/ KeysNext \/ ContextNext \/ RouteNext \/ HistoryNext
          \/ GestureNext\/ SwipeNext \/ MessageNext \/ BackgroundNext
          \/ ProviderNext

Spec == Init /\ [][Next]_vars

\* the window registry on its own: no application is ever registered
SpecWM == Init /\ [][WMNext]_vars

SpecLife == Init /\ [][LifeNext]_vars

SpecGeom == Init /\ [][GeomNext]_vars

SpecStore == Init /\ [][StoreNext]_vars

SpecConflict == Init /\ [][ConflictNext]_vars

SpecBridge == Init /\ [][BridgeNext]_vars

\* an await on a settled promise resumes, and an unmount hook settles
FairBridge ==
  /\ Init /\ [][SoloBridgeNext]_vars
  /\ WF_vars(TerminateAfterTransition)
  /\ WF_vars(TerminateAfterUnmount)

\* what a suspended call does when the promise it awaits settles
afterAwait(lc, t, ok) ==
  CASE t.op = "launch" /\ t.pc = "transition" -> launchAfterTransition(lc, t)
    [] t.op = "launch" /\ t.pc = "hook" -> launchAfterMount(lc, t, ok)
    [] t.op = "launch" /\ t.pc = "crash" -> launchAfterCrash(lc, t)
    [] t.op = "terminate" /\ t.pc = "transition" -> terminateAfterTransition(lc, t)
    [] t.op = "terminate" /\ t.pc = "hook" -> terminateAfterUnmount(lc, t, ok)
    [] t.op = "suspend" /\ t.pc = "transition" -> suspendAfterTransition(lc, t)
    [] t.op = "suspend" /\ t.pc = "hook" -> suspendAfterHook(lc, t, ok)
    [] t.op = "resume" /\ t.pc = "transition" -> resumeAfterTransition(lc, t)
    [] t.op = "resume" /\ t.pc = "hook" -> resumeAfterHook(lc, t, ok)

ContinueTask(t) ==
  /\ t \in BagToSet(tasks)
  /\ \E ok \in BOOLEAN : Continue(afterAwait(LC, t, ok))

\* the calls HookNext can have in flight
HookTasks ==
  {Task(op, i, "solo", pc, TRUE, "") :
     op \in {"launch", "suspend", "resume"}, i \in HookInstances,
     pc \in {"transition", "hook"}}
  \cup {Task("launch", i, "solo", "crash", TRUE, "") : i \in HookInstances}
  \cup {Task("terminate", i, "solo", pc, TRUE, r) :
          i \in HookInstances, pc \in {"transition", "hook"}, r \in HookReasons}

\* every call's await resumes and every awaited hook settles
FairHooks ==
  /\ Init /\ [][HookNext]_vars
  /\ \A t \in HookTasks : WF_vars(ContinueTask(t))

\* the shortcut registry under key events
SpecKeys == Init /\ [][KeysNext]_vars

\* the router with a shortcut and interaction handlers
SpecRoute == Init /\ [][RouteNext]_vars

\* the three kinds of consumer under context filters
SpecContext == Init /\ [][ContextNext]_vars

\* the router's two event logs over a long run
SpecHistory == Init /\ [][HistoryNext]_vars

\* the default gesture recognizers under pointer events
SpecGesture == Init /\ [][GestureNext]_vars

\* the default gesture recognizers under swipes
SpecSwipe == Init /\ [][SwipeNext]_vars

\* instances and their message handlers
SpecMessages == Init /\ [][MessageNext]_vars

\* the background-capable application and its windows
SpecBackground == Init /\ [][BackgroundNext]_vars

\* the provider's mounts and unmounts, from the modules' load on
SpecProvider == ModuleInit /\ [][ProviderNext]_vars

(* ===================== window registry: properties ===================== *)
FocusedWindows == {w \in DOMAIN windows : windows[w].isFocused}

\* C1: at most one window has isFocused = true, and a window with
\* isFocused = true is visible and not minimized, in every state reachable
\* through the window operations and the deferred focus steps.
C1_SingleFocus ==
  /\ Cardinality(FocusedWindows) <= 1
  /\ \A w \in FocusedWindows : windows[w].isVisible /\ ~windows[w].isMinimized

\* a deferred focus is still pending while one window is focused and
\* another one is minimized
C1_Witness ==
  /\ timers # << >>
  /\ FocusedWindows # {}
  /\ \E w \in DOMAIN windows : windows[w].isMinimized

\* C2: the stacking order holds every live window identity exactly once and
\* nothing else.
C2_OrderIsPermutation ==
  /\ Range(windowOrder) = DOMAIN windows
  /\ Len(windowOrder) = Cardinality(DOMAIN windows)

\* three live windows of which the bottom one was raised by a focus
C2_Witness ==
  /\ Len(windowOrder) = 3
  /\ focusedWindowId = Last(windowOrder)
  /\ windows[Last(windowOrder)].zIndex = 3
  /\ \E i \in 1..Len(wmEvents) : wmEvents[i].type = "focus"

\* C3: the window at 0-based position i of the stacking order has zIndex
\* i+1 (window at 1-based position p has zIndex p).
C3_ZIndexIsPosition ==
  \A p \in 1..Len(windowOrder) :
    windowOrder[p] \in DOMAIN windows => windows[windowOrder[p]].zIndex = p

Emitted(t, id) == \E i \in 1..Len(wmEvents) : wmEvents[i] = WinEvent(t, id)

FocusSettled ==
  LET top == getTopmostWindow(WM)
  IN IF top = NoWindow
     THEN /\ FocusedWindows = {}
          /\ focusedWindowId \notin DOMAIN windows
     ELSE /\ focusedWindowId = top
          /\ FocusedWindows = {top}

\* C5: after destroyWindow on the focused window, once every deferred focus
\* step has run, the focused window is the topmost visible, non-minimized
\* window, or no window is focused if none remains, whatever create, destroy
\* and minimize calls ran in between.
C5_RefocusAfterDestroy ==
  (refocusOwed /\ timers = << >>) => FocusSettled
(* ================= bridge and lifecycle: properties ==================== *)
OwnedWindows(i) == {w \in DOMAIN windows : windows[w].instanceId = i}

\* C6: for every instance present in the lifecycle engine, windowIds holds
\* exactly the live windows created with that instance in their metadata
\* (createWindowForApp puts it there too), each once.
C6_WindowIdsExact ==
  \A i \in DOMAIN instances :
    /\ Range(instances[i].windowIds) = OwnedWindows(i)
    /\ Len(instances[i].windowIds) = Cardinality(OwnedWindows(i))

\* one instance owns both windows
C6_Witness ==
  \E i \in DOMAIN instances :
    /\ Len(instances[i].windowIds) = 2
    /\ \A w \in AppWindowIds : w \in DOMAIN windowToInstance /\ windowToInstance[w] = i

\* C7: an instance that lost its last window (and that nobody terminated
\* by hand) has its unmount hook invoked at most once and at most one
\* terminate event emitted for it.
C7_TerminatedOnce ==
  \A i \in InstanceIds :
    i \notin terminateCalled => unmountCalls[i] <= 1 /\ terminateEvents[i] <= 1

AutoTerminating(i) ==
  \E t \in BagToSet(tasks) :
    t.op = "terminate" /\ t.inst = i /\ t.reason = NoWindowsRemaining

TerminatedWith(i, reason) ==
  /\ i \notin DOMAIN instances
  /\ \E k \in 1..Len(appEvents) : appEvents[k] = AppEvent("terminate", i, "", reason)

\* the bridge handles the destroy of w, the only window of instance i,
\* whose application does not support background mode
DestroysOnlyWindow(w, i) ==
  /\ Emitted("destroy", w)'
  /\ w \in DOMAIN windowToInstance /\ windowToInstance[w] = i
  /\ i \in DOMAIN instances /\ instances[i].windowIds = <<w>>
  /\ ~Manifest(instances[i].appId).supportsBackgroundMode

\* C8, as the code has it: destroying the only window of an instance
\* without background mode removes the window's association and starts a
\* terminate of the instance, which ends with the instance removed and a
\* terminate event with reason "No windows remaining".
C8_LastWindowTerminates ==
  /\ [][\A w \in AppWindowIds : \A i \in InstanceIds :
          DestroysOnlyWindow(w, i)
          => /\ w \notin DOMAIN windowToInstance'
             /\ AutoTerminating(i)'
             /\ instances'[i].state = "stopping"]_vars
  /\ \A i \in InstanceIds :
       AutoTerminating(i) ~> TerminatedWith(i, NoWindowsRemaining)

\* the terminate started by the loss of the last window has completed
C8_Witness ==
  \E i \in InstanceIds :
    /\ TerminatedWith(i, NoWindowsRemaining)
    /\ unmountCalls[i] = 1
    /\ DOMAIN windowToInstance = {}

\* C8 as stated: the terminate event of an instance terminated for the
\* loss of its last window carries the reason "no windows remaining".
C8_ReasonAsStated ==
  \A k \in 1..Len(appEvents) :
    (appEvents[k].type = "terminate" /\ appEvents[k].instanceId \notin terminateCalled)
    => appEvents[k].arg = "no windows remaining"

InstancesOf(a) == {i \in DOMAIN instances : instances[i].appId = a}

\* C9: a launch of a registered singleton application that follows an
\* earlier launch with no terminate in between returns the same instance,
\* creates no instance and emits nothing; and a singleton application never
\* has two instances.
C9_SingletonLaunch ==
  /\ [][\A a \in AppIds :
          (/\ Launch(a)
           /\ a \in applications /\ Manifest(a).singleton
           /\ launchReturn[a] # NoInstance)
          => /\ launchReturn'[a] = launchReturn[a]
             /\ instances' = instances
             /\ nextInstance' = nextInstance
             /\ appEvents' = << >>]_vars
  /\ [](\A a \in AppIds : Manifest(a).singleton => Cardinality(InstancesOf(a)) <= 1)

\* a second launch has returned the first instance while the first launch
\* still awaits its mount hook
C9_Witness ==
  \E t \in BagToSet(tasks) :
    /\ t.op = "launch" /\ t.pc = "hook" /\ Manifest(t.appId).singleton
    /\ launchReturn[t.appId] = t.inst
    /\ launchCalls[t.appId] = 2
    /\ t.inst \in DOMAIN instances
    /\ appEvents = << >>

\* a call of op on instance i has just reached its first await
Spawned(op, i) ==
  \E t \in BagToSet(tasks') :
    /\ t.op = op /\ t.inst = i /\ t.pc = "transition"
    /\ CopiesIn(t, tasks') > CopiesIn(t, tasks)

Running(op, i) == \E t \in BagToSet(tasks) : t.op = op /\ t.inst = i

Did(h, ev, i) ==
  \/ \E k \in 1..Len(hookCalls) : hookCalls[k] = HookCall(h, i)
  \/ \E k \in 1..Len(appEvents) : appEvents[k] = AppEvent(ev, i, "", "")

StateOf(i) == IF i \in DOMAIN instances THEN instances[i].state ELSE "absent"

\* C10: suspend acts only on a running instance and resume only on a
\* suspended one: a call in any other state, or for an unknown instance,
\* changes no instance, starts nothing, invokes no hook and emits no event;
\* an instance becomes suspended only from running by a suspend, and every
\* suspend/resume hook call and event belongs to a call that passed the test.
C10_SuspendResumeGuard ==
  [][\A i \in InstanceIds :
       /\ (Suspend(i) /\ StateOf(i) # "running")
          => (instances' = instances /\ tasks' = tasks
              /\ appEvents' = << >> /\ hookCalls' = << >>)
       /\ (Resume(i) /\ StateOf(i) # "suspended")
          => (instances' = instances /\ tasks' = tasks
              /\ appEvents' = << >> /\ hookCalls' = << >>)
       /\ Spawned("suspend", i)
          => (StateOf(i) = "running" /\ StateOf(i)' = "suspended")
       /\ Spawned("resume", i)
          => (StateOf(i) = "suspended" /\ StateOf(i)' = "running")
       /\ (StateOf(i)' = "suspended" /\ StateOf(i) # "suspended")
          => (StateOf(i) = "running" /\ Spawned("suspend", i))
       /\ Did("onSuspend", "suspend", i)' => Running("suspend", i)
       /\ Did("onResume", "resume", i)' => Running("resume", i)]_vars

\* a suspend has completed with its hook and event, and a later suspend of
\* the already suspended instance has changed nothing
C10_Witness ==
  \E i \in DOMAIN instances :
    /\ instances[i].state = "suspended"
    /\ ~Running("suspend", i)
    /\ appEvents = <<AppEvent("suspend", i, "", "")>>

(* ==================== hook failures: properties ======================== *)
AppEmitted(ev) == \E k \in 1..Len(appEvents) : appEvents[k] = ev

Logged(h, i) == \E k \in 1..Len(errorLog) : errorLog[k] = HookCall(h, i)

\* C11: when a launch whose mount hook failed resolves (it has just emitted
\* the error event for its instance) and nobody terminated the instance,
\* the instance is present and in state crashed.
C11_MountFailureCrashes ==
  \A i \in HookInstances :
    (AppEmitted(AppEvent("error", i, "", "")) /\ i \notin terminateCalled)
    => (i \in DOMAIN instances /\ instances[i].state = "crashed")

\* C12: a failed unmount, suspend or resume hook is logged and the call
\* goes on as if the hook had succeeded: terminate removes the instance and
\* emits terminate with the reason it was given, suspend and resume emit
\* their event and leave the state their call set (suspended, running)
\* untouched; and every terminate, suspend and resume that started ends
\* with its event, whatever its hook does.
C12_HookFailureCompletes ==
  /\ [][\A i \in HookInstances :
          /\ Logged("onUnmount", i)'
             => \E t \in Waiting("terminate", "hook") :
                  /\ t.inst = i
                  /\ tasks' = tasks (-) SetToBag({t})
                  /\ i \notin DOMAIN instances'
                  /\ appEvents' = <<AppEvent("terminate", i, "", t.reason)>>
          /\ Logged("onSuspend", i)'
             => \E t \in Waiting("suspend", "hook") :
                  /\ t.inst = i
                  /\ tasks' = tasks (-) SetToBag({t})
                  /\ instances' = instances
                  /\ appEvents' = <<AppEvent("suspend", i, "", "")>>
          /\ Logged("onResume", i)'
             => \E t \in Waiting("resume", "hook") :
                  /\ t.inst = i
                  /\ tasks' = tasks (-) SetToBag({t})
                  /\ instances' = instances
                  /\ appEvents' = <<AppEvent("resume", i, "", "")>>
          /\ Spawned("terminate", i) => StateOf(i)' = "stopping"
          /\ Spawned("suspend", i) => StateOf(i)' = "suspended"
          /\ Spawned("resume", i) => StateOf(i)' = "running"]_vars
  /\ \A i \in HookInstances :
       /\ \A r \in HookReasons :
            (\E t \in BagToSet(tasks) :
               t.op = "terminate" /\ t.inst = i /\ t.reason = r)
            ~> TerminatedWith(i, r)
       /\ Running("suspend", i) ~> AppEmitted(AppEvent("suspend", i, "", ""))
       /\ Running("resume", i) ~> AppEmitted(AppEvent("resume", i, "", ""))

\* a suspend whose hook failed has completed: the failure is logged, the
\* event is out and the instance is suspended
C12_Witness ==
  \E i \in DOMAIN instances :
    /\ errorLog = <<HookCall("onSuspend", i)>>
    /\ appEvents = <<AppEvent("suspend", i, "", "")>>
    /\ instances[i].state = "suspended"
    /\ tasks = EmptyBag

InvalidBlobKinds == {"unparseable", "null", "windowsNotIterable", "windowsMissing"}

\* C14: a loadSerializedState of a blob that is not a valid snapshot leaves
\* the windows, the stacking order, the focused identity and the z-index
\* counter as they were, and throws nothing.
C14_BadBlobChangesNothing ==
  [][lastLoad' \in InvalidBlobKinds
     => /\ UNCHANGED <<windows, windowOrder, focusedWindowId, nextZIndex>>
        /\ wmThrown' = NoError]_vars

(* ================== conflicts and stale references ===================== *)
\* C15: a createWindow on an identity that
\* is in the window registry throws, and a throwing createWindow leaves the
\* windows, the stacking order, the focus, the z-index counter, the
\* constraints and the pending deferred steps as they were and emits
\* nothing; a register of a registered application throws, and a throwing
\* register leaves the catalog as it was and emits nothing.
C15_DuplicateFailsFast ==
  [][/\ \A id \in DOMAIN windows :
          (\E c \in ConflictConstraints : CreateWindow(id, NoBounds, c, NoInstance))
          => wmThrown' = WindowExists
     /\ wmThrown' = WindowExists
          => /\ UNCHANGED <<windows, windowOrder, focusedWindowId, nextZIndex,
                            windowConstraints, timers>>
             /\ wmEvents' = << >>
     /\ \A a \in applications : Register(a) => appThrown' = AlreadyRegistered
     /\ appThrown' = AlreadyRegistered
          => (applications' = applications /\ appEvents' = << >>)]_vars

\* a createWindow on the identity of a live window that has constraints
\* has just thrown, in a system with a registered application
C15_Witness ==
  /\ wmThrown = WindowExists
  /\ windowConstraints # << >>
  /\ wmEvents = << >>
  /\ applications # {}

\* C16: in every reachable state, destroyWindow, focusWindow,
\* minimizeWindow, maximizeWindow, restoreWindow, moveWindow and
\* resizeWindow on an identity that is not in the registry return with
\* the registry as it was (windows, order, focus, counter, constraints,
\* pending deferred steps), nothing emitted and nothing thrown; and so does
\* the focusWindow of a deferred step whose target is no longer there.
C16_StaleReferenceIsNoOp ==
  /\ \A id \in WindowIds \ DOMAIN windows :
       /\ destroyWindow(WM, id) = WM
       /\ focusWindow(WM, id) = WM
       /\ minimizeWindow(WM, id) = WM
       /\ maximizeWindow(WM, id) = WM
       /\ restoreWindow(WM, id) = WM
       /\ \A p \in Positions : moveWindow(WM, id, p) = WM
       /\ \A sz \in Sizes : resizeWindow(WM, id, sz) = WM
  /\ (timers # << >> /\ Head(timers) \notin DOMAIN windows)
       => focusWindow(TimerFires, Head(timers)) = TimerFires

\* the deferred focus of a destroyed window has just run while another
\* window is live
C16_Witness ==
  /\ lastTimer # NoWindow
  /\ lastTimer \notin DOMAIN windows
  /\ windows # << >>
  /\ wmEvents = << >>
(* ------------------------ C17: fixed windows --------------------------- *)
ConstraintOf(id, what) ==
  id \in DOMAIN windowConstraints /\ windowConstraints[id][what]

\* C17: moveWindow on a window whose constraints have canMove = false, and
\* resizeWindow on a window whose constraints have canResize = false, return
\* without changing the bounds or anything else of the registry, without an
\* event and without an error.
C17_FixedWindowUnchanged ==
  \A id \in DOMAIN windows :
    /\ (id \in DOMAIN windowConstraints /\ ~ConstraintOf(id, "canMove")) =>
         \A p \in Positions : moveWindow(WM, id, p) = WM
    /\ (id \in DOMAIN windowConstraints /\ ~ConstraintOf(id, "canResize")) =>
         \A sz \in Sizes : resizeWindow(WM, id, sz) = WM

\* every window id the callers use is live and the step just taken emitted
\* nothing, fired no timer and threw nothing: it was a move or a resize that
\* was refused, on a fixed window still at its first bounds, next to a
\* window that did move
C17_Witness ==
  /\ DOMAIN windows = GeomWindowIds
  /\ wmEvents = << >> /\ wmThrown = NoError /\ lastTimer = NoWindow
  /\ timers = << >>
  /\ \E id \in GeomWindowIds :
       /\ id \in DOMAIN windowConstraints /\ windowConstraints[id] = Fixed
       /\ windows[id].bounds = defaultBounds
       /\ \E other \in GeomWindowIds \ {id} :
            windows[other].bounds.position \in Positions

(* ------------------------ C18: clamped resize -------------------------- *)
\* v lies in the range the constraints declare: a bound that is not declared
\* does not bind
InRange(v, lo, hi) ==
  /\ lo # Undefined => v >= lo[1]
  /\ hi # Undefined => v <= hi[1]

\* C18: a resize of a resizable window with declared minimum and/or maximum
\* width and height commits a size inside the declared range, and the resize
\* event carries exactly the committed size, whatever size was requested.
C18_ResizeClamps ==
  \A i \in 1..Len(wmEvents) :
    LET ev == wmEvents[i] IN
    (ev.type = "resize" /\ ev.windowId \in DOMAIN windowConstraints) =>
      LET c == windowConstraints[ev.windowId]
          size == windows[ev.windowId].bounds.size
      IN /\ ev.value = size
         /\ InRange(size.width, c.minWidth, c.maxWidth)
         /\ InRange(size.height, c.minHeight, c.maxHeight)

(* --------------------- C19: minimizing the focus ----------------------- *)
\* the windows of st that carry the focused flag
FocusedIn(st) == {w \in DOMAIN st.windows : st.windows[w].isFocused}

\* the windows other than id that are visible and not minimized
Remaining(id) ==
  {w \in DOMAIN windows \ {id} : windows[w].isVisible /\ ~windows[w].isMinimized}

\* the one of them that is highest in the stacking order
TopmostRemaining(id) ==
  CHOOSE w \in Remaining(id) :
    \A v \in Remaining(id) : PosOf(windowOrder, v) <= PosOf(windowOrder, w)

\* C19: minimizeWindow on the focused window clears its focused flag and, in
\* the same call, makes the topmost remaining visible, non-minimized window
\* the focused and topmost one, or leaves no window focused and the focused
\* identity null when none remains; minimizeWindow on a window that is
\* already minimized changes nothing and emits nothing.
C19_MinimizeHandsFocusOn ==
  \A id \in DOMAIN windows :
    LET st == minimizeWindow(WM, id) IN
    /\ (windows[id].isFocused /\ ~windows[id].isMinimized) =>
         /\ st.windows[id].isMinimized /\ ~st.windows[id].isFocused
         /\ st.timers = timers
         /\ IF Remaining(id) = {}
            THEN st.focusedWindowId = NoWindow /\ FocusedIn(st) = {}
            ELSE /\ st.focusedWindowId = TopmostRemaining(id)
                 /\ FocusedIn(st) = {TopmostRemaining(id)}
                 /\ Last(st.windowOrder) = TopmostRemaining(id)
    /\ windows[id].isMinimized => st = WM

\* a minimize of the focused window has just handed the focus to another
\* window: blur of the one, focus of the other, then minimize
C19_Witness ==
  \E id \in DOMAIN windows : \E next \in DOMAIN windows \ {id} :
    /\ wmEvents = <<WinEvent("blur", id), WinEvent("focus", next),
                    WinEvent("minimize", id)>>
    /\ windows[id].isMinimized /\ ~windows[id].isFocused
    /\ focusedWindowId = next /\ windows[next].isFocused
    /\ Last(windowOrder) = next
    /\ \E third \in DOMAIN windows \ {id, next} : windows[third].isMinimized

(* ---------------------- C20: create, then focus ------------------------ *)
\* the step just taken was createWindow(id) returning normally
Created(id) == wmEvents = <<WinEvent("create", id)>>

\* the step just taken was the deferred step of a window that is live and
\* not minimized
DeferredStepOf(id) ==
  lastTimer = id /\ id \in DOMAIN windows /\ ~windows[id].isMinimized

\* C20: createWindow leaves the focus as it was: the new window is unfocused
\* and last in the stacking order, the create event is the call's only event
\* and the focus is left to a deferred step; a window enters the registry
\* only with its create event and a focus event is emitted only for a window
\* that entered in an earlier step, so create precedes the first focus; and
\* once the deferred step has run, a new window that is still live and not
\* minimized is focused and topmost.
C20_CreateThenFocus ==
  /\ [][\A id \in WindowIds :
          /\ Created(id)' =>
               /\ id \notin DOMAIN windows
               /\ focusedWindowId' = focusedWindowId
               /\ \A w \in DOMAIN windows :
                    windows'[w].isFocused = windows[w].isFocused
               /\ ~windows'[id].isFocused
               /\ Last(windowOrder') = id
               /\ timers' = Append(timers, id)
          /\ (id \in DOMAIN windows' /\ id \notin DOMAIN windows) => Created(id)'
          /\ Emitted("focus", id)' => id \in DOMAIN windows]_vars
  /\ [](\A id \in WindowIds :
          DeferredStepOf(id) =>
            /\ focusedWindowId = id /\ FocusedWindows = {id}
            /\ Last(windowOrder) = id)

\* the deferred step of a new window has just taken the focus from the
\* window that held it while the new one was created
C20_Witness ==
  \E id \in DOMAIN windows : \E prev \in DOMAIN windows \ {id} :
    /\ DeferredStepOf(id)
    /\ wmEvents = <<WinEvent("blur", prev), WinEvent("focus", id)>>
    /\ focusedWindowId = id /\ windows[id].isFocused /\ ~windows[prev].isFocused
    /\ Last(windowOrder) = id

(* ======================= input router: properties ====================== *)
\* the key list as a set, whatever the case of its letters
KeySet(keys) == {toLowerCase(k) : k \in Range(keys)}

\* the event's active modifier keys plus its primary key
EventKeySet(e) ==
  LET m == getModifiersFromEvent(e)
  IN {k \in {"ctrl", "alt", "shift", "meta"} : m[k]}
     \cup (IF e.key = Undefined THEN {} ELSE {toLowerCase(e.key[1])})

\* C22: a shortcut's key list matches a key-down event exactly when, taken
\* as a set and whatever the case, it equals the set of the event's active
\* modifier keys plus its primary key; this for every key list, the ones
\* that repeat a key included.
C22_KeysMatchIsSetEquality ==
  \A i \in 1..Len(shortcuts) :
    (eventHistory # << >> /\ Last(eventHistory).type = "key.down") =>
      LET e == Last(eventHistory)
      IN keysMatch(shortcuts[i].keys, buildEventKeys(e))
           <=> KeySet(shortcuts[i].keys) = EventKeySet(e)

\* shortcut i is enabled and its context filter and keys match the event
ShortcutMatches(i, e) ==
  /\ shortcuts[i].enabled[1]
  /\ shortcutContextMatches(shortcuts[i].context, e.context)
  /\ keysMatch(shortcuts[i].keys, buildEventKeys(e))

\* the event the last step's processEvent call was given and accepted
Processed(e) ==
  /\ returned # << >> /\ eventHistory # << >>
  /\ e = Last(eventHistory) /\ returned[1].event = e.id

ShortcutsInvoked == SelectSeq(invoked, LAMBDA c : c.kind = "shortcut")

\* C21: for a key-down event, of the enabled shortcuts whose context filter
\* and keys match, exactly one handler is called: the one of the highest
\* context priority (0 when none is declared), and of the earliest place in
\* the registry among equals; key-up and key-press events call none.
C21_OneShortcutFires ==
  \A e \in Range(eventHistory) :
    Processed(e) =>
      LET M == {i \in 1..Len(shortcuts) : ShortcutMatches(i, e)}
      IN IF e.type = "key.down" /\ M # {}
         THEN \E i \in M :
                /\ \A j \in M :
                     \/ shortcutPriority(shortcuts[j]) < shortcutPriority(shortcuts[i])
                     \/ (shortcutPriority(shortcuts[j]) = shortcutPriority(shortcuts[i])
                         /\ i <= j)
                /\ ShortcutsInvoked = <<Invocation("shortcut", shortcuts[i].id, e)>>
         ELSE ShortcutsInvoked = << >>

\* two enabled shortcuts match ctrl+n, the one registered second has the
\* higher priority, and its handler alone was called
C21_Witness ==
  /\ Len(shortcuts) = 2
  /\ \E e \in Range(eventHistory) :
       /\ Processed(e) /\ e.type = "key.down"
       /\ ShortcutMatches(1, e) /\ ShortcutMatches(2, e)
       /\ shortcutPriority(shortcuts[1]) = 0 /\ shortcutPriority(shortcuts[2]) = 5
       /\ invoked = <<Invocation("shortcut", shortcuts[2].id, e)>>

\* no field of the filter is set
AllUnset(filter) ==
  \A f \in {"windowId", "appId", "elementType", "interactionMode"} :
    filter[f] = Undefined

\* C23: for shortcuts and interaction handlers alike, a context filter with
\* none of windowId, appId, elementType and interactionMode set matches
\* every event, one that carries no context included; a filter with a field
\* set does not match an event without context.
C23_UnsetFilterMatchesAll ==
  \A e \in Range(eventHistory) :
    /\ \A i \in 1..Len(handlers) :
         LET filter == handlers[i].context IN
         /\ AllUnset(filter) => handlerContextMatches(filter, e.context)
         /\ (~AllUnset(filter) /\ e.context = Undefined)
              => ~handlerContextMatches(filter, e.context)
    /\ \A i \in 1..Len(shortcuts) :
         shortcuts[i].context # Undefined =>
           LET filter == shortcuts[i].context[1] IN
           /\ AllUnset(filter) => shortcutContextMatches(Some(filter), e.context)
           /\ (~AllUnset(filter) /\ e.context = Undefined)
                => ~shortcutContextMatches(Some(filter), e.context)

\* the filter the consumer of an invocation was registered with
FilterOf(c) ==
  CASE c.kind = "shortcut" ->
         (CHOOSE sc \in Range(shortcuts) : sc.id = c.id).context
    [] c.kind = "handler" ->
         Some((CHOOSE h \in Range(handlers) : h.id = c.id).context)
    [] OTHER ->
         (CHOOSE g \in Range(gestureDefinitions) : g.id = c.id).context

\* the filter sets a field to a value other than the event's
Excludes(filter, e) ==
  /\ filter # Undefined /\ e.context # Undefined
  /\ \E f \in {"windowId", "appId", "elementType", "interactionMode"} :
       filter[1][f] # Undefined /\ filter[1][f] # e.context[1][f]

\* C24: shortcuts, custom gestures and interaction handlers apply the same
\* context rule: a consumer of any kind whose filter sets windowId, appId,
\* elementType or interactionMode to a value other than that of the event's
\* context is not called for the event.
C24_DifferingFilterNeverInvoked ==
  \A i \in 1..Len(invoked) :
    \A e \in Range(eventHistory) :
      e.id = invoked[i].event => ~Excludes(FilterOf(invoked[i]), e)

\* the handleEvent calls the router knows of: the ones still waiting and
\* the ones whose processEvent returned in the last step
Routed == Range(chains) \cup {r \in Range(returned) : ~r.byShortcut}

IsPrefix(s, t) == Len(s) <= Len(t) /\ \A i \in 1..Len(s) : s[i] = t[i]

\* the last step was the processEvent call that routed r's event: the
\* registry is still the one the candidates were taken from
JustRouted(r) ==
  /\ returned = << >> => (r \in Range(chains) /\ Len(r.calls) = 1)
  /\ \E e \in Range(eventHistory) :
       /\ e.id = nextEvent - 1
       /\ e.id = (IF r \in Range(chains) THEN r.event.id ELSE r.event)
  /\ \A i \in 1..Len(r.calls) :
       \E k \in 1..Len(invoked) :
         invoked[k] = [kind |-> "handler", id |-> r.calls[i].id, event |-> nextEvent - 1]

\* C25: the handlers whose predicate accepts the routed event and whose
\* filter matches are called in descending order of priority, one at a
\* time, until one returns consumed: none before a matching handler of a
\* strictly higher priority, none after a handler has consumed, and a
\* handler that throws is passed over for the next one.
C25_HandlersInPriorityOrder ==
  \A r \in Routed :
    /\ JustRouted(r) =>
         LET e == Last(eventHistory) IN
         /\ Range(r.candidates) =
              {h \in Range(handlers) :
                 e.type \in h.canHandle /\ handlerContextMatches(h.context, e.context)}
         /\ \A i, j \in 1..Len(r.candidates) :
              i < j => r.candidates[i].priority >= r.candidates[j].priority
    /\ IsPrefix(r.calls, r.candidates)
    /\ \A i \in 1..(Len(r.calls) - 1) : r.calls[i].handle # "consumes"
    /\ r \in Range(returned) =>
         \/ r.result /\ r.calls # << >> /\ Last(r.calls).handle = "consumes"
         \/ /\ ~r.result /\ r.calls = r.candidates
            /\ \A i \in 1..Len(r.calls) : r.calls[i].handle # "consumes"

\* a handleEvent call has returned true after three calls: the handler of
\* priority 5 threw, the next declined, and the last consumed
C25_Witness ==
  \E r \in Range(returned) :
    /\ r.result /\ ~r.byShortcut /\ Len(r.calls) = 3
    /\ r.calls[1].handle = "throws" /\ r.calls[1].priority = 5
    /\ r.calls[2].handle = "declines" /\ r.calls[3].handle = "consumes"
    /\ r.calls[3].priority = 1

\* the shortcut an invocation called
ShortcutOf(c) == CHOOSE sc \in Range(shortcuts) : sc.id = c.id

HandlersInvoked == SelectSeq(invoked, LAMBDA c : c.kind = "handler")

\* C26: processEvent returns true exactly when a shortcut or an interaction
\* handler consumed the event; after a shortcut consumed it no interaction
\* handler is called for it; and when the selected shortcut's handler
\* throws, the event is not consumed by the shortcut and goes on to the
\* interaction handlers.
C26_ReturnsWhetherConsumed ==
  /\ \A r \in Range(returned) :
       /\ r.result <=> (r.byShortcut
                        \/ \E i \in 1..Len(r.calls) : r.calls[i].handle = "consumes")
       /\ r.byShortcut =>
            \E k \in 1..Len(invoked) :
              /\ invoked[k] = [kind |-> "shortcut", id |-> invoked[k].id, event |-> r.event]
              /\ ShortcutOf(invoked[k]).handler # "throws"
  /\ \A k \in 1..Len(invoked) :
       invoked[k].kind = "shortcut" =>
         IF ShortcutOf(invoked[k]).handler = "throws"
         THEN \E r \in Routed :
                /\ JustRouted(r)
                /\ r.calls = << >> <=> r.candidates = << >>
                /\ Range(r.candidates) =
                     {h \in Range(handlers) :
                        /\ Last(eventHistory).type \in h.canHandle
                        /\ handlerContextMatches(h.context, Last(eventHistory).context)}
         ELSE /\ HandlersInvoked = << >>
              /\ \A c \in Range(chains) : c.event.id # invoked[k].event
              /\ \E r \in Range(returned) :
                   /\ r.event = invoked[k].event
                   /\ r.byShortcut /\ r.result /\ r.calls = << >>

\* the shortcut for ctrl+n threw, the event went on to the interaction
\* handlers, one of them consumed it, and processEvent has returned true
C26_Witness ==
  \E r \in Range(returned) : \E e \in Range(eventHistory) :
    /\ e.id = r.event /\ e.type = "key.down"
    /\ \E sc \in Range(shortcuts) : sc.handler = "throws" /\ sc.enabled[1]
    /\ r.result /\ ~r.byShortcut
    /\ r.calls # << >> /\ Last(r.calls).handle = "consumes"

\* the number of events the router has recorded: events arrive numbered
\* 1, 2, ... in the order they are processed
Arrived == nextEvent - 1

\* log holds the last min(Arrived, cap) events, oldest first
HoldsLast(log, cap) ==
  /\ Len(log) = (IF Arrived < cap THEN Arrived ELSE cap)
  /\ \A i \in 1..Len(log) : log[i].id = Arrived - Len(log) + i

\* C27: after any sequence of processed events the recent-event window
\* holds exactly the last min(n, 10) of them and the full history exactly
\* the last min(n, 100), both in arrival order, and their lengths never
\* exceed 10 and 100.
C27_LogsHoldLastEvents ==
  /\ HoldsLast(recentEvents, 10) /\ Len(recentEvents) <= 10
  /\ HoldsLast(eventHistory, 100) /\ Len(eventHistory) <= 100

\* more than 100 events have been processed: the history has dropped its
\* oldest and the window holds the last ten
C27_Witness ==
  /\ Arrived > 100 /\ Len(eventHistory) = 100 /\ Len(recentEvents) = 10
  /\ Head(eventHistory).id = Arrived - 99 /\ Head(recentEvents).id = Arrived - 9

\* the gestures of one type among those the last step recognized
RecognizedOf(gestures, type) == SelectSeq(gestures, LAMBDA g : g.type = type)

\* e is a release within the tap thresholds of the press the tap
\* recognizer tracks
IsValidTap(e) ==
  /\ IsRelease(e) /\ tapStart # Undefined
  /\ e.timestamp - tapStart[1].timestamp <= 300
  /\ EventDist2(tapStart[1], e) <= 10 * 10

\* C28: the tap recognizer emits a tap gesture exactly on a release that
\* follows its tracked press within 300 time-units and 10 distance-units;
\* on a press, a move or a release beyond either threshold it emits no
\* gesture transition at all, and a failed attempt leaves it ready to
\* track the next press.
C28_TapOnlyOnValidRelease ==
  [][LET taps == RecognizedOf(recognized', "tap")
     IN IF nextEvent' = nextEvent THEN taps = << >>
        ELSE LET e == Last(eventHistory')
             IN /\ IF IsValidTap(e)
                   THEN Len(taps) = 1 /\ taps[1].event = e.id
                   ELSE taps = << >>
                /\ IsRelease(e) => tapStart' = Undefined]_vars

\* what a scenario says of an event: its type, position and time
Shape(e) == <<e.type, e.position[1], e.timestamp>>

\* the router was fed exactly the events of run, from its initial state
Fed(run) ==
  /\ Len(eventHistory) = Len(run)
  /\ \A i \in 1..Len(run) : Shape(eventHistory[i]) = run[i]

TapRun == <<<<"mouse.down", Point(0, 0), 0>>, <<"mouse.up", Point(3, 3), 120>>>>

DragRun ==
  <<<<"mouse.down", Point(0, 0), 0>>, <<"mouse.move", Point(20, 0), 80>>,
    <<"mouse.up", Point(20, 0), 200>>>>

\* the states of the gestures of one type emitted so far, in order
StatesOf(type) ==
  LET gs == RecognizedOf(gestureLog, type) IN [i \in 1..Len(gs) |-> gs[i].state]

\* C29: a press at (0,0) and a release at (3,3) after 120 yield a recognized
\* tap and no drag gesture; a press at (0,0), a move to (20,0) and a release
\* at (20,0) after 200 yield drag start followed by drag end and no
\* recognized gesture of type tap.
C29_TapVersusDrag ==
  /\ Fed(TapRun) =>
       /\ \E g \in Range(gestureLog) :
            g.type = "tap" /\ g.state = "end" /\ g.event = eventHistory[2].id
       /\ StatesOf("drag") = << >>
  /\ Fed(DragRun) =>
       /\ StatesOf("drag") = <<"start", "end">>
       /\ StatesOf("tap") = << >>

\* the drag gestures among gestures that belong to the press numbered p
DragsOf(gestures, p) ==
  SelectSeq(gestures, LAMBDA g : g.type = "drag" /\ g.data.start = p)

\* a drag start was emitted for the press the drag recognizer tracks
StartEmitted ==
  dragStart # Undefined /\ DragsOf(gestureLog, dragStart[1].id) # << >>

\* gs is start, any number of updates, and then perhaps end
StartUpdatesEnd(gs) ==
  \/ gs = << >>
  \/ /\ gs[1].state = "start"
     /\ \A i \in 2..Len(gs) :
          gs[i].state = "update" \/ (i = Len(gs) /\ gs[i].state = "end")

\* the drag transition a step must emit for the event e it records, as a
\* sequence of their states
DragStatesDue(e) ==
  CASE dragStart = Undefined -> << >>
    [] IsMove(e) /\ StartEmitted -> <<"update">>
    [] IsMove(e) /\ EventDist2(dragStart[1], e) >= 10 * 10 -> <<"start">>
    [] IsRelease(e) /\ StartEmitted -> <<"end">>
    [] OTHER -> << >>

\* C30: for each press the drag recognizer tracks, the drag transitions
\* emitted are start, update*, end: start on the first move at least 10
\* from the press position, update on every later move with the delta from
\* the press position, end on the release only if start was emitted; a
\* press whose moves all stay below 10 yields no drag transition, and no
\* update or end comes without a start before it.
C30_DragIsStartUpdatesEnd ==
  [][LET drags == RecognizedOf(recognized', "drag")
     IN IF nextEvent' = nextEvent THEN drags = << >>
        ELSE LET e == Last(eventHistory')
             IN /\ [i \in 1..Len(drags) |-> drags[i].state] = DragStatesDue(e)
                /\ \A i \in 1..Len(drags) :
                     /\ drags[i].event = e.id
                     /\ drags[i].data.start = dragStart[1].id
                     /\ drags[i].state = "update" =>
                          /\ drags[i].data.deltaX = e.position[1].x - dragStart[1].position[1].x
                          /\ drags[i].data.deltaY = e.position[1].y - dragStart[1].position[1].y
                /\ \A q \in 1..nextEvent : StartUpdatesEnd(DragsOf(gestureLog', q))
                /\ DragStatesDue(e) = <<"end">> => dragStart' = Undefined
                /\ IsPress(e) /\ dragStart = Undefined => dragStart' = Some(e)]_vars

\* a press was followed by a move of 20, a move back to about 4 from the
\* press, and the release: drag start, update and end were emitted for it
C30_Witness ==
  \E q \in 1..Len(eventHistory) :
    /\ IsPress(eventHistory[q])
    /\ LET gs == DragsOf(gestureLog, eventHistory[q].id)
       IN /\ Len(gs) = 3
          /\ gs[1].state = "start" /\ gs[2].state = "update" /\ gs[3].state = "end"
          /\ gs[2].data.deltaX = 3 /\ gs[2].data.deltaY = 3

\* the time and the squared distance from the press the swipe recognizer
\* tracks to the event e
SwipeTime(e) == e.timestamp - swipeStart[1].timestamp

SwipeDist2(e) == EventDist2(swipeStart[1], e)

\* elapsed time at most 500, distance at least 50 and distance at least a
\* tenth of the time
WithinSwipeThresholds(e) ==
  /\ SwipeTime(e) <= 500 /\ SwipeDist2(e) >= 50 * 50
  /\ 100 * SwipeDist2(e) >= SwipeTime(e) * SwipeTime(e)

\* every step that records an event emits a swipe exactly on a release
\* within the thresholds of the tracked press, for that event, and every
\* release ends the tracking; zeroTime says whether a release at the time of
\* the press may be one
SwipeExactlyWhenDue(zeroTime) ==
  LET swipes == RecognizedOf(recognized', "swipe")
      Due(e) == WithinSwipeThresholds(e) /\ (zeroTime \/ SwipeTime(e) > 0)
  IN IF nextEvent' = nextEvent THEN swipes = << >>
     ELSE LET e == Last(eventHistory')
          IN /\ IF IsRelease(e) /\ swipeStart # Undefined /\ Due(e)
                THEN /\ Len(swipes) = 1 /\ swipes[1].event = e.id
                     /\ swipes[1].data.start = swipeStart[1].id
                ELSE swipes = << >>
             /\ IsRelease(e) => swipeStart' = Undefined
             /\ IsPress(e) /\ swipeStart = Undefined => swipeStart' = Some(e)

\* C31 as stated: the swipe recognizer emits a swipe on a release if and
\* only if, from its tracked press, the elapsed time is at most 500, the
\* distance at least 50 and distance/time at least 0.1; after any release
\* it tracks the next press afresh.
C31_SwipeAsStated == [][SwipeExactlyWhenDue(TRUE)]_vars

\* C31: the swipe recognizer emits a swipe on a release if and only if,
\* from its tracked press, the elapsed time is more than 0 and at most 500,
\* the distance at least 50 and distance/time at least 0.1; after any
\* release it tracks the next press afresh.
C31_SwipeIffThresholds == [][SwipeExactlyWhenDue(FALSE)]_vars

\* a press at (0,0) released at (60,0) after 800 has yielded no swipe, and
\* a swipe was emitted for a later press
C31_Witness ==
  /\ Len(eventHistory) = 4 /\ RecognizedOf(recognized, "swipe") # << >>
  /\ Shape(eventHistory[1]) = <<"mouse.down", Point(0, 0), 0>>
  /\ Shape(eventHistory[2]) = <<"mouse.up", Point(60, 0), 800>>
  /\ RecognizedOf(gestureLog, "swipe") = RecognizedOf(recognized, "swipe")

\* the long-press gestures among gestures that belong to the press numbered p
LongPressesOf(gestures, p) ==
  SelectSeq(gestures, LAMBDA g : g.type = "long-press" /\ g.data.start = p)

\* C32: the long-press recognizer emits a long-press only on a release
\* after its deadline fired while the press was tracked; a release before
\* the deadline emits nothing; a move of more than 10 from the press
\* cancels the attempt and disarms the deadline, so that neither the
\* deadline nor the later release emits anything; and at most one
\* long-press is emitted per press.
C32_LongPressAfterDeadline ==
  [][LET emitted == RecognizedOf(recognized', "long-press")
         tracked == longPress.start # Undefined
     IN /\ IF nextEvent' = nextEvent
           THEN /\ emitted = << >>
                /\ longPress.timer /\ ~longPress'.timer
                /\ tracked /\ longPress'.start = longPress.start
           ELSE LET e == Last(eventHistory')
                IN /\ emitted # << >> <=>
                        IsRelease(e) /\ tracked /\ longPress.triggered /\ ~longPress.timer
                   /\ \A i \in 1..Len(emitted) :
                        emitted[i].event = e.id /\ emitted[i].data.start = longPress.start[1].id
                   /\ IsMove(e) /\ tracked /\ EventDist2(longPress.start[1], e) > 10 * 10
                        => longPress'.start = Undefined
                   /\ IsRelease(e) => longPress'.start = Undefined
        /\ longPress'.start = Undefined => ~longPress'.timer /\ ~longPress'.triggered
        /\ longPress'.triggered => ~longPress'.timer
        /\ \A p \in 1..nextEvent : Len(LongPressesOf(gestureLog', p)) <= 1]_vars

\* a press, a move of about 4, the deadline and the release: a long-press
\* was emitted for the press
C32_Witness ==
  /\ Len(eventHistory) = 3 /\ IsPress(eventHistory[1])
  /\ Shape(eventHistory[2]) = <<"mouse.move", Point(3, 3), 80>>
  /\ IsRelease(eventHistory[3])
  /\ LongPressesOf(recognized, eventHistory[1].id) # << >>

\* the instances with a registered message handler, in the Map's order
HandlerOwners == [i \in 1..Len(messageHandlers) |-> messageHandlers[i].id]

\* C33: a broadcast invokes the handler of every instance that has one
\* except the sender's, each exactly once; a message to one recipient
\* invokes that instance's handler only, and is dropped with no delivery
\* and no error when that instance has no handler.
C33_DeliversToRegistered ==
  lastSend # Undefined =>
    LET m == lastSend[1]
    IN IF m.to = Broadcast
       THEN m.invoked = SelectSeq(HandlerOwners, LAMBDA i : i # m.from)
       ELSE IF m.to \in Range(HandlerOwners) THEN m.invoked = <<m.to>>
       ELSE m.invoked = << >> /\ appThrown = NoError

\* C34: the focused identity is null or the identity of a live window whose
\* isFocused flag is true, in every reachable state of the window registry.
C34_FocusedIdentityIsLive ==
  \/ focusedWindowId = NoWindow
  \/ focusedWindowId \in DOMAIN windows /\ windows[focusedWindowId].isFocused

\* C35: z-indices are strictly increasing along the stacking order, and
\* nextZIndex is greater than the zIndex of every live window, after any
\* sequence of window operations.
C35_ZIndicesIncrease ==
  /\ \A p, q \in 1..Len(windowOrder) :
       p < q /\ windowOrder[p] \in DOMAIN windows /\ windowOrder[q] \in DOMAIN windows
         => windows[windowOrder[p]].zIndex < windows[windowOrder[q]].zIndex
  /\ \A w \in DOMAIN windows : windows[w].zIndex < nextZIndex

\* a window was destroyed below two others: the z-indices along the order
\* are 2 and 3, no longer the positions, and the counter is at 4
C35_Witness ==
  /\ Len(windowOrder) = 2 /\ nextZIndex = 4
  /\ \A p \in 1..2 : windowOrder[p] \in DOMAIN windows
                       /\ windows[windowOrder[p]].zIndex = p + 1

\* the events the last step emitted for the instance i, in order
EventsOf(i) == SelectSeq(appEvents, LAMBDA e : e.instanceId = i)

\* C36: the terminate event is the last lifecycle event of an instance: once
\* it was emitted for an instance id, no stateChange, suspend, resume, error
\* or further terminate event is emitted for that id, whatever calls for it
\* were still awaiting their hooks.
C36_TerminateIsLastEvent ==
  \A i \in InstanceIds :
    terminateEvents[i] > 0 /\ EventsOf(i) # << >> =>
      /\ terminateEvents[i] = 1
      /\ Last(EventsOf(i)).type = "terminate"
      /\ \A k \in 1..(Len(EventsOf(i)) - 1) : EventsOf(i)[k].type # "terminate"

\* the last step destroyed a window
WindowDestroyed == \E k \in 1..Len(wmEvents') : wmEvents'[k].type = "destroy"

\* C37: an instance launched from a descriptor that declares
\* background-mode support is never terminated because a window was
\* removed: after the removal that empties its window list it is still
\* present with its state unchanged, also when its descriptor was
\* unregistered while it lived.
C37_BackgroundInstanceSurvives ==
  [][WindowDestroyed =>
       \A i \in DOMAIN instances :
         Manifest(instances[i].appId).supportsBackgroundMode =>
           /\ i \in DOMAIN instances'
           /\ instances'[i].state = instances[i].state
           /\ \A t \in BagToSet(tasks') : t.op = "terminate" => t.inst # i]_vars

\* the event numbered j is the last press or release before the one
\* numbered k, and it is a press
PressHeldAt(j, k) ==
  /\ j < k /\ IsPress(eventHistory[j])
  /\ \A m \in (j + 1)..(k - 1) :
       ~IsPress(eventHistory[m]) /\ ~IsRelease(eventHistory[m])

\* C38: every drag start is emitted for a move that follows a press with no
\* release in between, with its distance measured from that most recent
\* press; a move after a press and release that never reached the drag
\* threshold, with no new press, emits no drag transition.
C38_DragNeedsHeldPress ==
  \A g \in Range(gestureLog) :
    g.type = "drag" /\ IsMove(eventHistory[g.event]) =>
      \E j \in 1..Len(eventHistory) :
        /\ PressHeldAt(j, g.event)
        /\ g.state = "start" => g.data.start = eventHistory[j].id

\* C40: in every state each entry of the bridge's window-to-instance table
\* names a window that is live in the window registry and an instance that
\* is present in the lifecycle engine, so that no live window stays
\* associated with an instance terminate has removed.
C40_AssociationsAreLive ==
  \A w \in DOMAIN windowToInstance :
    /\ w \in DOMAIN windows
    /\ windowToInstance[w] \in DOMAIN instances

\* the step is the provider's effect calling initializeWindowApplicationBridge
BridgeInitialized == ~providerMounted /\ providerMounted'

\* the windows the step created with a present instance in their metadata
CreatedFor(i) ==
  {w \in DOMAIN windows' \ DOMAIN windows : windows'[w].instanceId = i}

\* C39: whenever initializeWindowApplicationBridge returns, the bridge is
\* subscribed to the window registry, also when an earlier bridge was shut
\* down with destroy() (the provider unmounted and mounted again); and while
\* the provider is mounted a window created with an instance id in its
\* metadata is recorded in that instance's windowIds.
C39_InitializedBridgeListens ==
  [][/\ BridgeInitialized => BridgeHandler \in eventHandlers'
     /\ providerMounted =>
          \A i \in DOMAIN instances : \A w \in CreatedFor(i) :
            i \in DOMAIN instances' /\ w \in Range(instances'[i].windowIds)]_vars

====
